---- MODULE Spec2Model ----
(***************************************************************************)
(* Panopticon core: store paths, the scalar store, the execution plan, the *)
(* pipeline lifecycle (Draft / Ready / Completed) and the execution driver *)
(* with the ExecutableWrapper protocol.                                    *)
(*                                                                         *)
(* Specifications:                                                         *)
(*   Spec       pipeline lifecycle and execution driver                    *)
(*   SpecPlan   ExecutionPlan (namespace order, command order) on drafts   *)
(*   SpecStore  sequential calls of the ScalarStore API                    *)
(*   SpecConc   concurrent tasks calling ScalarStore::insert / get         *)
(*   SpecLock   concurrent tasks on the locks of both stores and of tera   *)
(*   SpecSchema CommandSpecBuilder call sequences                          *)
(***************************************************************************)
EXTENDS Integers, Sequences, FiniteSets, TLC

VARIABLES
    phase,        \* "Draft" | "Ready" | "Executing" | "Completed" | "Failed" | "-"
    namespaces,   \* Pipeline.namespaces : Seq(Namespace)
    commands,     \* Pipeline.commands   : Seq(CommandSpec)
    diag,         \* diagnostic of the last failed add_namespace/add_command/compile/execute
    ctx,          \* ScalarStore.store : tera::Context, top-level key -> ScalarValue
    run,          \* position of the execution driver inside execute()
    hist,         \* observations of the run (started commands, insert calls, ...)
    plan,         \* ExecutionPlan under SpecPlan
    last,         \* the last ScalarStore call and its outcome under SpecStore
    tasks,        \* concurrent tasks under SpecConc
    lock,         \* tokio RwLock of ScalarStore.store under SpecConc; all three locks under SpecLock
    tabular,      \* TabularStore.store : dotted key -> TabularValue
    schema,       \* CommandSpecBuilder with its PendingAttribute / ObjectFields under SpecSchema
    calc          \* argument and result of the function applied under SpecPath, SpecAttrs, SpecResults

vars == <<phase, namespaces, commands, diag, ctx, run, hist, plan, last, tasks, lock, tabular, schema, calc>>

(***************************************************************************)
(* ScalarValue (tera::Value = serde_json::Value).  Every value is a record *)
(* of the same shape, so that values of different kinds can be compared.   *)
(***************************************************************************)
EmptyMap == <<>>

Null == [k |-> "null", s |-> "", n |-> 0, b |-> FALSE, a |-> <<>>, m |-> EmptyMap]

Bool(x) == [k |-> "bool", s |-> "", n |-> 0, b |-> x, a |-> <<>>, m |-> EmptyMap]

Num(x) == [k |-> "num", s |-> "", n |-> x, b |-> FALSE, a |-> <<>>, m |-> EmptyMap]

Str(x) == [k |-> "str", s |-> x, n |-> 0, b |-> FALSE, a |-> <<>>, m |-> EmptyMap]

Arr(x) == [k |-> "arr", s |-> "", n |-> 0, b |-> FALSE, a |-> x, m |-> EmptyMap]

Obj(x) == [k |-> "obj", s |-> "", n |-> 0, b |-> FALSE, a |-> <<>>, m |-> x]

\* ObjectBuilder::new().build_scalar()
EmptyObject == Obj(EmptyMap)

\* Option<T>
None == [some |-> FALSE, v |-> Null]

Some(x) == [some |-> TRUE, v |-> x]

\* Map::insert / Context::insert
Put(m, key, v) == [x \in (DOMAIN m) \cup {key} |-> IF x = key THEN v ELSE m[x]]

\* Map::remove / Context::remove
Del(m, key) == [x \in (DOMAIN m) \ {key} |-> m[x]]

(***************************************************************************)
(* StorePath: a sequence of segments.                                      *)
(***************************************************************************)
\* StorePath::starts_with
StartsWith(p, other) ==
    /\ Len(other) <= Len(p)
    /\ \A i \in 1..Len(other) : p[i] = other[i]

\* StorePath::with_segment
WithSegment(p, seg) == Append(p, seg)

\* an output prefix that ignores the iteration index
WithIndexDropped(p, i) == p

\* StorePath::with_index
WithIndex(p, i) == WithSegment(p, ToString(i))

(***************************************************************************)
(* values/helpers.rs                                                       *)
(***************************************************************************)
RECURSIVE InsertInto(_, _, _)
\* The loop of insert_at_path from `current`, over the segments `rest` that
\* remain after the namespace segment was skipped.
InsertInto(current, rest, value) ==
    IF current.k # "obj"
    THEN [ok |-> FALSE, v |-> current]
    ELSE IF Len(rest) = 1
         THEN [ok |-> TRUE, v |-> Obj(Put(current.m, rest[1], value))]
         ELSE LET child == IF rest[1] \in DOMAIN current.m
                           THEN current.m[rest[1]]
                           ELSE EmptyObject
                  r == InsertInto(child, Tail(rest), value)
              IN [ok |-> r.ok, v |-> Obj(Put(current.m, rest[1], r.v))]

insert_at_path(root, path, value) ==
    IF Len(path) = 0 THEN [ok |-> FALSE, v |-> root]
    ELSE IF Len(path) = 1 THEN [ok |-> TRUE, v |-> root]
    ELSE InsertInto(root, Tail(path), value)

RECURSIVE Walk(_, _)
\* The loop of get_at_path.
Walk(current, rest) ==
    IF Len(rest) = 0 THEN Some(current)
    ELSE IF current.k = "obj" /\ rest[1] \in DOMAIN current.m
         THEN Walk(current.m[rest[1]], Tail(rest))
         ELSE None

get_at_path(root, path) ==
    IF Len(path) = 0 THEN None ELSE Walk(root, Tail(path))

(***************************************************************************)
(* values/scalar.rs: ScalarStore over the context c.  Each operator is the *)
(* whole method, run under the lock it takes.                              *)
(***************************************************************************)
\* ScalarStore::insert: [ok, ctx]
ScalarInsert(c, key, value) ==
    IF Len(key) = 0 THEN [ok |-> FALSE, ctx |-> c]
    ELSE LET store_key == key[1]
             target == IF store_key \in DOMAIN c THEN c[store_key] ELSE EmptyObject
             removed == Del(c, store_key)
             r == insert_at_path(target, key, value)
         IN IF r.ok
            THEN [ok |-> TRUE, ctx |-> Put(removed, store_key, r.v)]
            ELSE [ok |-> FALSE, ctx |-> removed]

\* ScalarStore::get: [ok, val : Option]
ScalarGet(c, key) ==
    IF Len(key) = 0 THEN [ok |-> FALSE, val |-> None]
    ELSE IF key[1] \in DOMAIN c
         THEN [ok |-> TRUE, val |-> get_at_path(c[key[1]], key)]
         ELSE [ok |-> TRUE, val |-> None]

\* a remove that leaves the key in the store
RemoveKeepsKey(c, key) == [ok |-> Len(key) > 0, ctx |-> c]

\* ScalarStore::remove: [ok, ctx]
ScalarRemove(c, key) ==
    IF Len(key) = 0 THEN [ok |-> FALSE, ctx |-> c]
    ELSE [ok |-> TRUE, ctx |-> Del(c, key[1])]

\* ScalarStore::insert_raw: the value goes directly under one top-level key
InsertRaw(c, name, value) == [ok |-> TRUE, ctx |-> Put(c, name, value)]

\* a context that still holds the output of a command of an earlier run
StaleContext == [a |-> Obj([c |-> Obj([content |-> Str("x")])])]

\* ScalarStore::new
NewContext == EmptyMap

(***************************************************************************)
(* SpecStore: one caller issues ScalarStore calls one after the other.     *)
(***************************************************************************)
\* keys the caller uses (the empty path has no namespace)
StoreKeys == {<<>>, <<"ns">>, <<"ns", "x">>, <<"ns", "y">>, <<"ns", "x", "z">>}

StoreValues == {Num(1), Str("v")}

RawNames == {"ns", "item"}

NoCall == [op |-> "new", key |-> <<>>, value |-> Null, ok |-> TRUE,
           before |-> NewContext, got |-> None]

Call(op, key, value, ok, before, got) ==
    [op |-> op, key |-> key, value |-> value, ok |-> ok, before |-> before, got |-> got]

\* variables a specification does not use keep these values
IdlePipeline == phase = "-" /\ namespaces = <<>> /\ commands = <<>> /\ diag = ""

IdleRun == run = <<>> /\ hist = <<>>

IdlePlan == plan = <<>>

IdleStore == last = NoCall

IdleSchema == schema = <<>> /\ calc = <<>>

IdleConc == tasks = <<>> /\ lock = <<>> /\ tabular = <<>>

StInit == IdlePipeline /\ IdleRun /\ IdlePlan /\ IdleConc /\ IdleSchema /\ ctx = NewContext /\ last = NoCall

StInsert ==
    \E key \in StoreKeys, value \in StoreValues :
        LET r == ScalarInsert(ctx, key, value) IN
        /\ ctx' = r.ctx
        /\ last' = Call("insert", key, value, r.ok, ctx, None)
        /\ UNCHANGED <<phase, namespaces, commands, diag, run, hist, plan, tasks, lock, tabular, schema, calc>>

StGet ==
    \E key \in StoreKeys :
        LET r == ScalarGet(ctx, key) IN
        /\ last' = Call("get", key, Null, r.ok, ctx, r.val)
        /\ UNCHANGED <<phase, namespaces, commands, diag, ctx, run, hist, plan, tasks, lock, tabular, schema, calc>>

StRemove ==
    \E key \in StoreKeys :
        LET r == ScalarRemove(ctx, key) IN
        /\ ctx' = r.ctx
        /\ last' = Call("remove", key, Null, r.ok, ctx, None)
        /\ UNCHANGED <<phase, namespaces, commands, diag, run, hist, plan, tasks, lock, tabular, schema, calc>>

StInsertRaw ==
    \E name \in RawNames, value \in StoreValues :
        LET r == InsertRaw(ctx, name, value) IN
        /\ ctx' = r.ctx
        /\ last' = Call("insert_raw", <<name>>, value, r.ok, ctx, None)
        /\ UNCHANGED <<phase, namespaces, commands, diag, run, hist, plan, tasks, lock, tabular, schema, calc>>

StNext == StInsert \/ StGet \/ StRemove \/ StInsertRaw

SpecStore == StInit /\ [][StNext]_vars

\* q is a sibling of the inserted path: same namespace, neither the path
\* itself, nor below it, nor one of the objects the path runs through
Sibling(q, key) ==
    /\ Len(q) > 0 /\ Len(key) > 0
    /\ q[1] = key[1]
    /\ ~StartsWith(q, key)
    /\ ~StartsWith(key, q)

\* C9: no insert at [ns, ...], returning Ok or an error, removes or changes
\* a value previously written at a sibling key under [ns, ...]; the sibling
\* stays retrievable with its old value.
C9_InsertKeepsSiblings ==
    last.op = "insert" =>
        \A q \in StoreKeys :
            (Sibling(q, last.key) /\ ScalarGet(last.before, q).val.some)
                => ScalarGet(ctx, q).val = ScalarGet(last.before, q).val

\* the same frame property for the inserts that return Ok
C9_OkInsertKeepsSiblings ==
    (last.op = "insert" /\ last.ok) =>
        \A q \in StoreKeys :
            (Sibling(q, last.key) /\ ScalarGet(last.before, q).val.some)
                => ScalarGet(ctx, q).val = ScalarGet(last.before, q).val

\* an insert returned an error while a sibling held a value
C9_FailedInsertWithSibling ==
    /\ last.op = "insert" /\ ~last.ok
    /\ \E q \in StoreKeys : Sibling(q, last.key) /\ ScalarGet(last.before, q).val.some

(***************************************************************************)
(* SpecConc: several tasks call ScalarStore::insert and ScalarStore::get   *)
(* on one store.  `lock` is the tokio RwLock around the tera::Context; a   *)
(* task is suspended at `.write().await` / `.read().await` until the lock  *)
(* is granted, and the guard is dropped when the method returns.           *)
(***************************************************************************)
MaxTasks == 3

TaskIds == 1..MaxTasks

\* the calls a task may make
ConcCalls ==
    {[op |-> "insert", key |-> <<"ns", "x">>, value |-> Num(1)],
     [op |-> "insert", key |-> <<"ns", "x", "z">>, value |-> Str("v")],
     [op |-> "insert", key |-> <<"ns", "y">>, value |-> Str("v")],
     [op |-> "get", key |-> <<"ns", "y">>, value |-> Null],
     [op |-> "get", key |-> <<"ns", "x">>, value |-> Null]}

\* the store the tasks start from: ns.y = 1 was inserted before
ConcStart == ScalarInsert(NewContext, <<"ns", "y">>, Num(1)).ctx

NewTask(call) ==
    [op |-> call.op, key |-> call.key, value |-> call.value, pc |-> "start",
     target |-> Null, ok |-> TRUE, obs |-> None]

Unlocked == [writer |-> 0, readers |-> {}]

\* RwLock::write is granted when nobody holds the lock
CanWrite(l) == l.writer = 0 /\ l.readers = {}

\* a read that does not wait for the writer
CanReadUnguarded(l) == TRUE

\* RwLock::read is granted when no writer holds the lock
CanRead(l) == l.writer = 0

CInit ==
    /\ IdlePipeline /\ IdleRun /\ IdlePlan /\ IdleStore
    /\ ctx = ConcStart
    /\ lock = Unlocked /\ tabular = <<>> /\ IdleSchema
    /\ tasks \in [TaskIds -> {NewTask(c) : c \in ConcCalls}]

Step(t, rec) == tasks' = [tasks EXCEPT ![t] = rec]

CFrame == UNCHANGED <<phase, namespaces, commands, diag, run, hist, plan, last, tabular, schema, calc>>

\* insert, line 82: key.namespace().context(..)?
InsertEnter(t) ==
    /\ tasks[t].op = "insert" /\ tasks[t].pc = "start"
    /\ IF Len(tasks[t].key) = 0
       THEN Step(t, [tasks[t] EXCEPT !.pc = "done", !.ok = FALSE])
       ELSE Step(t, [tasks[t] EXCEPT !.pc = "wait_w"])
    /\ UNCHANGED <<ctx, lock>> /\ CFrame

\* insert, line 83: self.store.write().await
InsertLock(t) ==
    /\ tasks[t].pc = "wait_w"
    /\ CanWrite(lock)
    /\ lock' = [lock EXCEPT !.writer = t]
    /\ Step(t, [tasks[t] EXCEPT !.pc = "locked"])
    /\ UNCHANGED ctx /\ CFrame

\* insert, lines 84-87: ctx.remove(store_key), or a new empty object
InsertRemove(t) ==
    /\ tasks[t].pc = "locked"
    /\ LET store_key == tasks[t].key[1] IN
       /\ ctx' = Del(ctx, store_key)
       /\ Step(t, [tasks[t] EXCEPT !.pc = "removed",
                      !.target = IF store_key \in DOMAIN ctx THEN ctx[store_key]
                                 ELSE EmptyObject])
    /\ UNCHANGED lock /\ CFrame

\* insert, line 88: insert_at_path(&mut target_value, key, value)?
\* (an error returns at once, which drops the guard)
InsertBuild(t) ==
    /\ tasks[t].pc = "removed"
    /\ LET r == insert_at_path(tasks[t].target, tasks[t].key, tasks[t].value) IN
       IF r.ok
       THEN /\ Step(t, [tasks[t] EXCEPT !.pc = "built", !.target = r.v])
            /\ UNCHANGED lock
       ELSE /\ Step(t, [tasks[t] EXCEPT !.pc = "done", !.ok = FALSE])
            /\ lock' = Unlocked
    /\ UNCHANGED ctx /\ CFrame

\* insert, lines 89-91: ctx.insert(store_key, &target_value); Ok(())
InsertStore(t) ==
    /\ tasks[t].pc = "built"
    /\ ctx' = Put(ctx, tasks[t].key[1], tasks[t].target)
    /\ lock' = Unlocked
    /\ Step(t, [tasks[t] EXCEPT !.pc = "done"])
    /\ CFrame

\* get, line 97: self.store.read().await
GetLock(t) ==
    /\ tasks[t].op = "get" /\ tasks[t].pc = "start"
    /\ CanRead(lock)
    /\ lock' = [lock EXCEPT !.readers = @ \cup {t}]
    /\ Step(t, [tasks[t] EXCEPT !.pc = "reading"])
    /\ UNCHANGED ctx /\ CFrame

\* get, lines 98-108: look the key up and return, which drops the guard
GetRead(t) ==
    /\ tasks[t].pc = "reading"
    /\ LET r == ScalarGet(ctx, tasks[t].key) IN
       Step(t, [tasks[t] EXCEPT !.pc = "done", !.ok = r.ok, !.obs = r.val])
    /\ lock' = [lock EXCEPT !.readers = @ \ {t}]
    /\ UNCHANGED ctx /\ CFrame

CNext ==
    \E t \in TaskIds :
        \/ InsertEnter(t)
        \/ InsertLock(t)
        \/ InsertRemove(t)
        \/ InsertBuild(t)
        \/ InsertStore(t)
        \/ GetLock(t)
        \/ GetRead(t)

SpecConc == CInit /\ [][CNext]_vars

Inserters == {t \in TaskIds : tasks[t].op = "insert"}

RECURSIVE SerialStates(_, _)
\* the stores reached by applying some of the inserts of `todo`, one whole
\* insert after the other, from the store c
SerialStates(c, todo) ==
    {c} \cup UNION {SerialStates(ScalarInsert(c, tasks[t].key, tasks[t].value).ctx,
                                 todo \ {t}) : t \in todo}

RECURSIVE SerialOutcomes(_, _)
\* the stores reached by applying all the inserts of `todo` in some order
SerialOutcomes(c, todo) ==
    IF todo = {} THEN {c}
    ELSE UNION {SerialOutcomes(ScalarInsert(c, tasks[t].key, tasks[t].value).ctx,
                               todo \ {t}) : t \in todo}

\* C10: interleaved inserts leave the store as some serial order of them
\* does, and what a concurrent get returns is what it would return between
\* two whole inserts: never the root missing or half updated in the middle
\* of an insert.
C10_InsertAtomic ==
    /\ (\A t \in TaskIds : tasks[t].pc = "done")
          => ctx \in SerialOutcomes(ConcStart, Inserters)
    /\ \A t \in TaskIds :
          (tasks[t].op = "get" /\ tasks[t].pc = "done")
          => \E c \in SerialStates(ConcStart, Inserters) :
                tasks[t].obs = ScalarGet(c, tasks[t].key).val

\* a get has returned although it was requested while an insert was between
\* its removal and its re-insertion of the root
C10_GetDuringInsert ==
    \E t, u \in TaskIds :
        /\ tasks[t].op = "get" /\ tasks[t].pc = "start"
        /\ tasks[u].op = "insert" /\ tasks[u].pc \in {"removed", "built"}
        /\ tasks[t].key[1] = tasks[u].key[1]
        /\ \E w \in TaskIds : tasks[w].op = "get" /\ tasks[w].pc = "done"

(***************************************************************************)
(* Namespace and CommandSpec                                               *)
(*   Option<String> is <<>> (None) or <<name>> (Some(name)).               *)
(*   Indices are 1-based; the code's are 0-based.                          *)
(***************************************************************************)
\* IteratorType: the source of an iterative namespace (keys: None is
\* some |-> FALSE; range: None is <<>>, Some((start, end)) is <<start, end>>)
NoSource ==
    [kind |-> "-", keys |-> [some |-> FALSE, list |-> {}], exclude |-> FALSE, range |-> <<>>]

\* IteratorType::ScalarArray { range }
ScalarArrayRange(range) ==
    [kind |-> "ScalarArray", keys |-> [some |-> FALSE, list |-> {}], exclude |-> FALSE,
     range |-> range]

ScalarArray == ScalarArrayRange(<<>>)

\* IteratorType::ScalarObjectKeys { keys: Some(keys), exclude }
ScalarObjectKeys(keys, exclude) ==
    [kind |-> "ScalarObjectKeys", keys |-> [some |-> TRUE, list |-> keys], exclude |-> exclude,
     range |-> <<>>]

\* IteratorType::ScalarObjectKeys { keys: None, exclude }
ScalarObjectAllKeys(exclude) ==
    [kind |-> "ScalarObjectKeys", keys |-> [some |-> FALSE, list |-> {}], exclude |-> exclude,
     range |-> <<>>]

\* Namespace { name, ty: ExecutionMode::Once }
OnceNs(name) ==
    [name |-> name, ty |-> "Once", store_path |-> <<>>, source |-> NoSource,
     iter_var |-> <<>>, index_var |-> <<>>, values |-> EmptyMap]

\* Namespace { name, ty: ExecutionMode::Iterative { store_path, source, iter_var, index_var } }
IterativeNs(name, store_path, source, iter_var, index_var) ==
    [name |-> name, ty |-> "Iterative", store_path |-> store_path, source |-> source,
     iter_var |-> iter_var, index_var |-> index_var, values |-> EmptyMap]

\* Namespace { name, ty: ExecutionMode::Static { values } }
StaticNs(name, values) ==
    [name |-> name, ty |-> "Static", store_path |-> <<>>, source |-> NoSource,
     iter_var |-> <<>>, index_var |-> <<>>, values |-> values]

RECURSIVE SortedSeq(_)
\* the elements of a set of numbers, in increasing order
SortedSeq(S) ==
    IF S = {} THEN <<>>
    ELSE LET lo == CHOOSE x \in S : \A y \in S : x <= y
         IN <<lo>> \o SortedSeq(S \ {lo})

(***************************************************************************)
(* pipeline/order.rs                                                       *)
(***************************************************************************)
\* a heap ordered by index alone
HeapLowestIndex(heap, priority) ==
    CHOOSE x \in heap : \A y \in heap : x <= y

\* BinaryHeap<(u32, Reverse<usize>)>::pop: highest priority, then lowest index
HeapTop(heap, priority) ==
    CHOOSE x \in heap :
        \A y \in heap : \/ priority[x] > priority[y]
                        \/ priority[x] = priority[y] /\ x <= y

RECURSIVE KahnLoop(_, _, _, _, _)
\* the `while let Some(..) = heap.pop()` loop of topological_sort_with_priority
KahnLoop(graph, priority, in_degree, heap, result) ==
    IF heap = {} THEN result
    ELSE LET node == HeapTop(heap, priority)
             degree == [d \in DOMAIN graph |->
                           IF node \in graph[d] THEN in_degree[d] - 1 ELSE in_degree[d]]
             ready == {d \in DOMAIN graph : node \in graph[d] /\ degree[d] = 0}
         IN KahnLoop(graph, priority, degree, (heap \ {node}) \cup ready,
                     Append(result, node))

\* a sort that forgets to push the nodes whose last prerequisite was emitted
TopoSortNoPush(graph, node_count, priority) ==
    LET seed == SortedSeq({n \in 1..node_count : Cardinality(graph[n]) = 0})
    IN IF Len(seed) # node_count
       THEN [ok |-> FALSE, order |-> <<>>]
       ELSE [ok |-> TRUE, order |-> seed]

\* topological_sort_with_priority: [ok, order]
topological_sort_with_priority(graph, node_count, priority) ==
    LET in_degree == [n \in 1..node_count |-> Cardinality(graph[n])]
        heap == {n \in 1..node_count : in_degree[n] = 0}
        result == KahnLoop(graph, priority, in_degree, heap, <<>>)
    IN IF Len(result) # node_count
       THEN [ok |-> FALSE, order |-> <<>>]
       ELSE [ok |-> TRUE, order |-> result]

\* topological_sort: no priorities
topological_sort(graph, node_count) ==
    topological_sort_with_priority(graph, node_count, [n \in 1..node_count |-> 0])

\* name_to_idx: HashMap<&str, usize>, the later of two equal names wins
HasNamespace(nss, name) == \E i \in DOMAIN nss : nss[i].name = name

NameToIdx(nss, name) ==
    CHOOSE i \in DOMAIN nss :
        /\ nss[i].name = name
        /\ \A j \in DOMAIN nss : nss[j].name = name => j <= i

\* extension_providers: HashMap<ExtensionKey, usize>, entry().or_insert():
\* the namespace of the first command that provides the extension
HasProvider(cmds, ext) == \E i \in DOMAIN cmds : ext \in cmds[i].provides_extensions

FirstProviderNs(cmds, ext) ==
    LET i == CHOOSE k \in DOMAIN cmds :
                 /\ ext \in cmds[k].provides_extensions
                 /\ \A j \in DOMAIN cmds : ext \in cmds[j].provides_extensions => k <= j
    IN cmds[i].namespace_index

\* a namespace graph without the edges from requirers to providers
NamespaceGraphNoExtensions(nss, cmds) ==
    [idx \in DOMAIN nss |->
        {src \in DOMAIN nss :
            /\ src # idx
            /\ \/ /\ nss[idx].ty = "Iterative"
                  /\ Len(nss[idx].store_path) > 0
                  /\ HasNamespace(nss, nss[idx].store_path[1])
                  /\ NameToIdx(nss, nss[idx].store_path[1]) = src
               \/ \E c \in DOMAIN cmds :
                     /\ cmds[c].namespace_index = idx
                     /\ \E dep \in cmds[c].dependencies :
                           /\ Len(dep) > 0
                           /\ HasNamespace(nss, dep[1])
                           /\ NameToIdx(nss, dep[1]) = src}]

\* the graph of compute_namespace_order: namespace -> set of prerequisites
NamespaceGraph(nss, cmds) ==
    [idx \in DOMAIN nss |->
        {src \in DOMAIN nss :
            /\ src # idx
            /\ \/ /\ nss[idx].ty = "Iterative"
                  /\ Len(nss[idx].store_path) > 0
                  /\ HasNamespace(nss, nss[idx].store_path[1])
                  /\ NameToIdx(nss, nss[idx].store_path[1]) = src
               \/ \E c \in DOMAIN cmds :
                     /\ cmds[c].namespace_index = idx
                     /\ \E dep \in cmds[c].dependencies :
                           /\ Len(dep) > 0
                           /\ HasNamespace(nss, dep[1])
                           /\ NameToIdx(nss, dep[1]) = src
               \/ \E c \in DOMAIN cmds :
                     /\ cmds[c].namespace_index = idx
                     /\ \E ext \in cmds[c].requires_extensions :
                           /\ HasProvider(cmds, ext)
                           /\ FirstProviderNs(cmds, ext) = src}]

\* priority: 1 for a namespace with a command that provides an extension
NamespacePriority(nss, cmds) ==
    [idx \in DOMAIN nss |->
        IF \E c \in DOMAIN cmds : /\ cmds[c].namespace_index = idx
                                  /\ cmds[c].provides_extensions # {}
        THEN 1 ELSE 0]

\* a namespace order that leaves the command dependencies out of the graph
NamespaceOrderNoCommandDeps(nss, cmds) ==
    IF Len(nss) = 0 THEN [ok |-> TRUE, order |-> <<>>]
    ELSE topological_sort_with_priority(NamespaceGraph(nss, <<>>), Len(nss),
                                        NamespacePriority(nss, cmds))

\* compute_namespace_order: [ok, order]
compute_namespace_order(nss, cmds) ==
    IF Len(nss) = 0 THEN [ok |-> TRUE, order |-> <<>>]
    ELSE topological_sort_with_priority(NamespaceGraph(nss, cmds), Len(nss),
                                        NamespacePriority(nss, cmds))

\* prefix_to_idx: HashMap<StorePath, usize>, the later of two equal prefixes wins
PrefixIdx(cs, namespace, prefix) ==
    CHOOSE i \in DOMAIN cs :
        /\ <<namespace, cs[i].name>> = prefix
        /\ \A j \in DOMAIN cs : <<namespace, cs[j].name>> = prefix => j <= i

\* ext_provider_idx: HashMap<&ExtensionKey, usize>, insert(): the last provider
LastProviderIdx(cs, ext) ==
    CHOOSE k \in DOMAIN cs :
        /\ ext \in cs[k].provides_extensions
        /\ \A j \in DOMAIN cs : ext \in cs[j].provides_extensions => j <= k

\* the graph of compute_command_order over the commands cs of one namespace
CommandGraph(cs, namespace) ==
    [idx \in DOMAIN cs |->
        {c \in DOMAIN cs :
            /\ c # idx
            /\ \/ /\ PrefixIdx(cs, namespace, <<namespace, cs[c].name>>) = c
                  /\ \E dep \in cs[idx].dependencies :
                        StartsWith(dep, <<namespace, cs[c].name>>)
               \/ \E ext \in cs[idx].requires_extensions :
                     /\ HasProvider(cs, ext)
                     /\ LastProviderIdx(cs, ext) = c}]

\* a command order that keeps the insertion order whatever the dependencies
CommandOrderAsInserted(cs, namespace) ==
    [ok |-> TRUE, order |-> [i \in DOMAIN cs |-> i]]

\* compute_command_order: [ok, order]
compute_command_order(cs, namespace) ==
    IF Len(cs) = 0 THEN [ok |-> TRUE, order |-> <<>>]
    ELSE topological_sort(CommandGraph(cs, namespace), Len(cs))

\* ExecutionPlan::get_ordered_commands_for_namespace: [ok, commands], the
\* commands given by their index in Pipeline.commands
get_ordered_commands_for_namespace(nss, cmds, ns_idx) ==
    LET ns_commands == SortedSeq({c \in DOMAIN cmds : cmds[c].namespace_index = ns_idx})
        cs == [i \in DOMAIN ns_commands |-> cmds[ns_commands[i]]]
        r == compute_command_order(cs, nss[ns_idx].name)
    IN IF Len(ns_commands) = 0 THEN [ok |-> TRUE, commands |-> <<>>]
       ELSE IF ~r.ok THEN [ok |-> FALSE, commands |-> <<>>]
       ELSE [ok |-> TRUE, commands |-> [i \in DOMAIN r.order |-> ns_commands[r.order[i]]]]

\* CommandSpec { namespace_index, name, attributes, dependencies,
\*               provides_extensions, requires_extensions }
CommandSpec(namespace_index, name, attributes, dependencies, provides, requires) ==
    [namespace_index |-> namespace_index, name |-> name, attributes |-> attributes,
     dependencies |-> dependencies,
     provides_extensions |-> provides, requires_extensions |-> requires]

(***************************************************************************)
(* SpecPlan: ExecutionPlan::new and Iterator::next applied to bounded      *)
(* pipelines of three namespaces and up to MaxPlanCmds commands.           *)
(***************************************************************************)
MaxPlanCmds == 3

\* the data an iterative namespace iterates over: another namespace, or input
\* that no namespace of the pipeline holds
PlanSources == {"a", "ext"}

PlanNamespaceSets(src) ==
    LET A == OnceNs("a")
        B == OnceNs("b")
        P == IterativeNs("p", <<src, "c", "out">>, ScalarArray, <<>>, <<>>)
    IN {<<A, B, P>>, <<P, B, A>>}

PlanNamespaces == UNION {PlanNamespaceSets(src) : src \in PlanSources}

\* (namespace name, command name) of the commands a pipeline may hold
PlanSlots == {<<"a", "c">>, <<"a", "d">>, <<"b", "c">>, <<"p", "c">>}

\* what a command declares: store paths it reads, extensions it provides or requires
PlanDecls ==
    {[deps |-> {}, provides |-> {}, requires |-> {}],
     [deps |-> {<<"a", "c", "out">>}, provides |-> {}, requires |-> {}],
     [deps |-> {<<"a", "d", "out">>}, provides |-> {}, requires |-> {}],
     [deps |-> {<<"p", "c", "0", "out">>}, provides |-> {}, requires |-> {}],
     [deps |-> {}, provides |-> {"E"}, requires |-> {}],
     [deps |-> {}, provides |-> {}, requires |-> {"E"}]}

NoPlan == [state |-> "none", namespace_order |-> <<>>, current |-> 0,
           groups |-> <<>>, error |-> ""]

PlanCommand(nss, slot, decl) ==
    CommandSpec(NameToIdx(nss, slot[1]), slot[2], EmptyMap,
                decl.deps, decl.provides, decl.requires)

PlanInit ==
    /\ phase = "-" /\ diag = ""
    /\ namespaces \in PlanNamespaces
    /\ \E n \in 0..MaxPlanCmds :
          \E slots \in [1..n -> PlanSlots], decls \in [1..n -> PlanDecls] :
             /\ \A i, j \in 1..n : i # j => slots[i] # slots[j]
             /\ commands = [i \in 1..n |-> PlanCommand(namespaces, slots[i], decls[i])]
    /\ ctx = NewContext
    /\ plan = NoPlan
    /\ IdleRun /\ IdleStore /\ IdleConc /\ IdleSchema

PlanFrame == UNCHANGED <<phase, namespaces, commands, diag, ctx, run, hist, last, tasks, lock, tabular, schema, calc>>

\* ExecutionPlan::new
PlanNew ==
    /\ plan.state = "none"
    /\ LET r == compute_namespace_order(namespaces, commands)
       IN plan' = IF r.ok
                  THEN [NoPlan EXCEPT !.state = "planned", !.namespace_order = r.order]
                  ELSE [NoPlan EXCEPT !.state = "failed", !.error = "namespace"]
    /\ PlanFrame

\* Iterator::next returning Some(Ok(group)) or Some(Err(_))
PlanNextGroup ==
    /\ plan.state = "planned"
    /\ plan.current < Len(plan.namespace_order)
    /\ LET ns_idx == plan.namespace_order[plan.current + 1]
           r == get_ordered_commands_for_namespace(namespaces, commands, ns_idx)
       IN plan' = IF r.ok
                  THEN [plan EXCEPT !.current = @ + 1,
                                    !.groups = Append(@, [namespace_index |-> ns_idx,
                                                          commands |-> r.commands])]
                  ELSE [plan EXCEPT !.current = @ + 1, !.error = "command"]
    /\ PlanFrame

\* Iterator::next returning None
PlanEnd ==
    /\ plan.state = "planned"
    /\ plan.current >= Len(plan.namespace_order)
    /\ plan' = [plan EXCEPT !.state = "done"]
    /\ PlanFrame

PlanNext == PlanNew \/ PlanNextGroup \/ PlanEnd

SpecPlan == PlanInit /\ [][PlanNext]_vars

(***************************************************************************)
(* Properties of the plan                                                  *)
(***************************************************************************)
RECURSIVE TransitiveClosure(_)
TransitiveClosure(R) ==
    LET R2 == R \cup {<<pr[1][1], pr[2][2]>> : pr \in {q \in R \X R : q[1][2] = q[2][1]}}
    IN IF R2 = R THEN R ELSE TransitiveClosure(R2)

Acyclic(R) == \A e \in TransitiveClosure(R) : e[1] # e[2]

CmdNs(c) == commands[c].namespace_index

CmdPrefix(c) == <<namespaces[CmdNs(c)].name, commands[c].name>>

\* command c names command d in one of its dependency paths
NamesCommand(c, d) ==
    /\ c # d
    /\ \E dep \in commands[c].dependencies : StartsWith(dep, CmdPrefix(d))

Pos(q, x) == CHOOSE i \in DOMAIN q : q[i] = x

Scheduled(q, x) == \E i \in DOMAIN q : q[i] = x

\* C3: whenever the plan yields an order, a command that names another
\* command C' in a dependency path (the path starts with [namespace, C'.name])
\* is scheduled after C': later in the group when both are in one namespace,
\* in a later namespace group otherwise.
C3_DependenciesScheduledFirst ==
    \A c, d \in DOMAIN commands :
        NamesCommand(c, d) =>
            IF CmdNs(c) = CmdNs(d)
            THEN \A g \in DOMAIN plan.groups :
                    plan.groups[g].namespace_index = CmdNs(c) =>
                        /\ Scheduled(plan.groups[g].commands, c)
                        /\ Scheduled(plan.groups[g].commands, d)
                        /\ Pos(plan.groups[g].commands, d) < Pos(plan.groups[g].commands, c)
            ELSE plan.state \in {"planned", "done"} =>
                    Pos(plan.namespace_order, CmdNs(d)) < Pos(plan.namespace_order, CmdNs(c))

\* a finished plan that had to move a command before an earlier-added one of
\* its namespace and a namespace before an earlier-added one
C3_PlanReordered ==
    /\ plan.state = "done" /\ plan.error = ""
    /\ \E c, d \in DOMAIN commands :
          NamesCommand(c, d) /\ CmdNs(c) = CmdNs(d) /\ c < d
    /\ \E c, d \in DOMAIN commands :
          NamesCommand(c, d) /\ CmdNs(c) < CmdNs(d)

\* every dependency a command declares, at the level of commands: a named
\* command, the provider of a required extension, and for the commands of an
\* iterative namespace the command that produces the iterated data
DeclaredEdges ==
    {e \in (DOMAIN commands) \X (DOMAIN commands) :
        /\ e[1] # e[2]
        /\ \/ NamesCommand(e[1], e[2])
           \/ commands[e[1]].requires_extensions \cap commands[e[2]].provides_extensions # {}
           \/ /\ namespaces[CmdNs(e[1])].ty = "Iterative"
              /\ StartsWith(namespaces[CmdNs(e[1])].store_path, CmdPrefix(e[2]))}

\* namespace x must run after namespace y
NamespaceEdges ==
    {e \in (DOMAIN namespaces) \X (DOMAIN namespaces) :
        /\ e[1] # e[2]
        /\ \/ /\ namespaces[e[1]].ty = "Iterative"
              /\ namespaces[e[1]].store_path[1] = namespaces[e[2]].name
           \/ \E c \in DOMAIN commands :
                 /\ CmdNs(c) = e[1]
                 /\ \/ \E dep \in commands[c].dependencies : dep[1] = namespaces[e[2]].name
                    \/ \E ext \in commands[c].requires_extensions :
                          /\ HasProvider(commands, ext)
                          /\ FirstProviderNs(commands, ext) = e[2]}

\* command c must run after command d of its own namespace
GroupEdges ==
    {e \in (DOMAIN commands) \X (DOMAIN commands) :
        /\ e[1] # e[2]
        /\ CmdNs(e[1]) = CmdNs(e[2])
        /\ \/ NamesCommand(e[1], e[2])
           \/ \E ext \in commands[e[1]].requires_extensions :
                 /\ ext \in commands[e[2]].provides_extensions
                 /\ \A j \in DOMAIN commands :
                       (CmdNs(j) = CmdNs(e[2]) /\ ext \in commands[j].provides_extensions)
                           => j <= e[2]}

EveryNamespaceOnce ==
    \A n \in DOMAIN namespaces :
        Cardinality({g \in DOMAIN plan.groups : plan.groups[g].namespace_index = n}) = 1

EveryCommandOnce ==
    \A c \in DOMAIN commands :
        Cardinality({<<g, i>> \in (DOMAIN plan.groups) \X (1..Len(commands)) :
                        /\ i \in DOMAIN plan.groups[g].commands
                        /\ plan.groups[g].commands[i] = c}) = 1

PlanSucceeds ==
    /\ plan.state # "failed"
    /\ plan.error = ""
    /\ plan.state = "done" => EveryNamespaceOnce /\ EveryCommandOnce

\* C4 as stated: if no command transitively depends on itself, plan
\* construction succeeds and yields every namespace and command exactly once.
C4_CommandDagPlans == Acyclic(DeclaredEdges) => PlanSucceeds

\* C4: if the namespace-level dependency graph is acyclic and the command
\* dependency graph inside every namespace is acyclic, plan construction
\* succeeds and yields every namespace and every command exactly once.
C4_LayeredDagPlans ==
    (Acyclic(NamespaceEdges) /\ Acyclic(GroupEdges)) => PlanSucceeds

\* a finished plan over a pipeline with dependencies at both levels
C4_LayeredDagPlanned ==
    /\ plan.state = "done"
    /\ Acyclic(NamespaceEdges) /\ Acyclic(GroupEdges)
    /\ Cardinality(NamespaceEdges) >= 2
    /\ GroupEdges # {}
    /\ EveryNamespaceOnce /\ EveryCommandOnce

(***************************************************************************)
(* Templates.  The text of a template is kept parsed: a sequence of        *)
(* literal chunks and {{ path }} expressions.  A string attribute is a     *)
(* ScalarValue::String whose text is such a sequence (field a).            *)
(***************************************************************************)
Lit(text) == [lit |-> text, var |-> <<>>]
Var(path) == [lit |-> "", var |-> path]

TemplateText(parts) ==
    [k |-> "str", s |-> "", n |-> 0, b |-> FALSE, a |-> parts, m |-> EmptyMap]

RECURSIVE to_dotted(_)
\* StorePath::to_dotted: segments.join(".")
to_dotted(path) ==
    IF Len(path) = 0 THEN ""
    ELSE IF Len(path) = 1 THEN path[1]
    ELSE path[1] \o "." \o to_dotted(Tail(path))

\* a parsing that takes the whole string for one segment
FromDottedWhole(s) == <<s>>

RECURSIVE SplitDots(_, _, _)
\* str::split('.') of s from position i on, the current piece starting at `start`
SplitDots(s, start, i) ==
    IF i > Len(s) THEN <<SubSeq(s, start, Len(s))>>
    ELSE IF SubSeq(s, i, i) = "."
    THEN <<SubSeq(s, start, i - 1)>> \o SplitDots(s, i + 1, i + 1)
    ELSE SplitDots(s, start, i + 1)

\* StorePath::from_dotted: dotted.split('.')
from_dotted(s) == SplitDots(s, 1, 1)

RECURSIVE JoinValues(_)
RECURSIVE RenderValue(_)
\* tera's rendering of a value in {{ }}
RenderValue(v) ==
    CASE v.k = "str" -> v.s
      [] v.k = "num" -> ToString(v.n)
      [] v.k = "bool" -> IF v.b THEN "true" ELSE "false"
      [] v.k = "null" -> ""
      [] v.k = "arr" -> "[" \o JoinValues(v.a) \o "]"
      [] OTHER -> "[object]"

JoinValues(vs) ==
    IF Len(vs) = 0 THEN ""
    ELSE IF Len(vs) = 1 THEN RenderValue(vs[1])
    ELSE RenderValue(vs[1]) \o ", " \o JoinValues(Tail(vs))

\* lookup of a dotted variable in the tera::Context the store holds
Lookup(c, path) ==
    IF Len(path) > 0 /\ path[1] \in DOMAIN c THEN Walk(c[path[1]], Tail(path)) ELSE None

RECURSIVE RenderParts(_, _)
\* tera.render: an undefined variable is an error
RenderParts(c, parts) ==
    IF Len(parts) = 0 THEN [ok |-> TRUE, s |-> ""]
    ELSE LET part == parts[1]
             found == Lookup(c, part.var)
             rest == RenderParts(c, Tail(parts))
         IN IF part.var = <<>>
            THEN [ok |-> rest.ok, s |-> part.lit \o rest.s]
            ELSE IF ~found.some THEN [ok |-> FALSE, s |-> ""]
            ELSE [ok |-> rest.ok, s |-> RenderValue(found.v) \o rest.s]

\* the text holds a `{{` or `{%` that the grammar did not close: in the
\* model a delimiter that is left inside a literal part
HasOpenTag(text) ==
    \E i \in 1..(Len(text) - 1) : SubSeq(text, i, i + 1) \in {"{{", "{%"}

\* TeraParser::parse(Rule::template, ..) / Tera::add_raw_template succeed
ParsesTemplate(parts) == \A i \in DOMAIN parts : ~HasOpenTag(parts[i].lit)

\* ScalarStore::render_template / ExecutionContext::substitute: [ok, s]
render_template(c, parts) ==
    LET r == RenderParts(c, parts)
    IN IF ParsesTemplate(parts) /\ r.ok THEN r ELSE [ok |-> FALSE, s |-> ""]

MaxParsedInt == 9

\* parse_scalar
parse_scalar(s) ==
    CASE s = "true" -> Bool(TRUE)
      [] s = "false" -> Bool(FALSE)
      [] s = "null" -> Null
      [] OTHER -> IF \E i \in 0..MaxParsedInt : ToString(i) = s
                  THEN Num(CHOOSE i \in 0..MaxParsedInt : ToString(i) = s)
                  ELSE Str(s)

\* a truthiness test that takes every value for true
AlwaysTruthy(v) == TRUE

\* is_truthy
is_truthy(v) ==
    CASE v.k = "null" -> FALSE
      [] v.k = "bool" -> v.b
      [] v.k = "num" -> v.n # 0
      [] v.k = "str" -> v.s # "" /\ v.s # "false"
      [] v.k = "arr" -> Len(v.a) > 0
      [] OTHER -> DOMAIN v.m # {}

\* the variables of a template: extract_from_scalar
TemplateVars(text) == {text.a[i].var : i \in {j \in DOMAIN text.a : text.a[j].var # <<>>}}

\* the attributes the command type declares (Descriptor::command_attributes);
\* `when` is a common attribute and not among them
CommandAttributes == {"output"}

\* FromAttributes::extract_dependencies
extract_dependencies(attrs) ==
    UNION {TemplateVars(attrs[name]) : name \in (DOMAIN attrs) \cap CommandAttributes}

(***************************************************************************)
(* Spec: the pipeline lifecycle.  Draft pipelines are built from a small   *)
(* catalogue of namespace builders and commands.                           *)
(***************************************************************************)
DEFAULT_ITER_VAR == "item"
DEFAULT_INDEX_VAR == "index"
RESERVED_NAMESPACES == {DEFAULT_ITER_VAR, DEFAULT_INDEX_VAR}

MaxCommands == 2

SrcItems == <<Str("a"), Str("b"), Str("c")>>

SrcValues == [key \in {"items", "on"} |-> IF key = "items" THEN Arr(SrcItems) ELSE Bool(FALSE)]

\* the NamespaceBuilders handed to add_namespace
NsCatalogue ==
    {StaticNs("src", SrcValues),
     OnceNs("a"),
     OnceNs("item"),
     IterativeNs("p", <<"src", "items">>, ScalarArray, <<>>, <<>>),
     IterativeNs("p", <<"src", "items">>, ScalarArray, <<"item">>, <<"index">>),
     IterativeNs("q", <<"a", "c">>, ScalarObjectKeys({"content"}, FALSE), <<"k">>, <<>>)}

\* Attributes: `output`, and `when` if a condition is given
Attrs(output, when) ==
    [name \in {"output"} \cup {"when" : i \in DOMAIN when} |->
        IF name = "output" THEN TemplateText(output) ELSE TemplateText(<<Lit(when[1])>>)]

\* the (namespace, name, attributes) handed to NamespaceHandle::add_command
CmdCatalogue ==
    {[ns |-> "a", name |-> "c", attrs |-> Attrs(<<Lit("x")>>, <<>>)],
     [ns |-> "a", name |-> "s", attrs |-> Attrs(<<Lit("x")>>, <<"src.on">>)],
     [ns |-> "a", name |-> "u", attrs |-> Attrs(<<Var(<<"p", "c", "0", "content">>)>>, <<>>)],
     [ns |-> "a", name |-> "d", attrs |-> Attrs(<<Var(<<"a", "e", "content">>)>>, <<>>)],
     [ns |-> "a", name |-> "e", attrs |-> Attrs(<<Var(<<"a", "d", "content">>)>>, <<>>)],
     [ns |-> "p", name |-> "c", attrs |-> Attrs(<<Var(<<"item">>), Lit("-"), Var(<<"index">>)>>, <<>>)],
     [ns |-> "p", name |-> "d", attrs |-> Attrs(<<Var(<<"a", "c", "content">>), Lit("-"), Var(<<"item">>)>>, <<>>)],
     [ns |-> "q", name |-> "c", attrs |-> Attrs(<<Var(<<"k">>)>>, <<>>)],
     [ns |-> "src", name |-> "c", attrs |-> Attrs(<<Lit("x")>>, <<>>)]}

\* ExecutionPlan position and driver state of an execute() in flight; `earlier`
\* records that an execute() of this pipeline has completed before
NoRun == [pc |-> "-", order |-> <<>>, current |-> 0, ns |-> 0, group |-> <<>>, next |-> 0,
          items |-> <<>>, index |-> 0, canceled |-> FALSE, earlier |-> FALSE]

\* Pipeline::new
Init ==
    /\ phase = "Draft" /\ namespaces = <<>> /\ commands = <<>> /\ diag = ""
    /\ ctx = NewContext
    /\ run = NoRun /\ hist = <<>>
    /\ IdlePlan /\ IdleStore /\ IdleConc /\ IdleSchema

Frame == UNCHANGED <<plan, last, tasks, lock, tabular, schema, calc>>

\* NamespaceBuilder::build: "" or the error
BuildError(builder) ==
    IF builder.ty = "Once" /\ builder.name \in RESERVED_NAMESPACES
    THEN "Namespace name is reserved"
    ELSE ""

\* hook_dispatch!: every registered hook is called, outcomes[i] says that
\* hook i returned Ok; "" or the collected error
hook_dispatch(outcomes) ==
    IF \A i \in DOMAIN outcomes : outcomes[i] THEN "" ELSE "Hook service errors"

\* Pipeline<Draft>::add_namespace of a pipeline whose registered hooks
\* answer after_added_namespace with `outcomes`
AddNamespaceHooked(builder, outcomes) ==
    /\ phase = "Draft"
    /\ LET error ==
              IF BuildError(builder) # "" THEN BuildError(builder)
              ELSE IF \E i \in DOMAIN namespaces : namespaces[i].name = builder.name
              THEN "Namespace with name already exists"
              ELSE IF builder.name \in RESERVED_NAMESPACES
              THEN "Namespace name is reserved"
              ELSE ""
       IN /\ diag' = IF error = "" THEN hook_dispatch(outcomes) ELSE error
          /\ namespaces' = IF error = "" THEN Append(namespaces, builder) ELSE namespaces
    /\ UNCHANGED <<phase, commands, ctx, run, hist>>
    /\ Frame

\* Pipeline<Draft>::add_namespace of a pipeline without hooks
AddNamespace(builder) == AddNamespaceHooked(builder, <<>>)

\* handles of every kind with an add_command
AnyHandleAddsCommands(ty) == TRUE

\* the kinds of NamespaceHandle that have an add_command: sealed::Once and
\* sealed::Iterative; a call on a handle of a Static namespace does not compile
HandleAddsCommands(ty) == ty \in {"Once", "Iterative"}

\* an add_command without the search for the name in the namespace
AddCommandUnchecked(entry) ==
    /\ phase = "Draft"
    /\ HasNamespace(namespaces, entry.ns)
    /\ Len(commands) < MaxCommands
    /\ diag' = ""
    /\ commands' = Append(commands,
                          CommandSpec(NameToIdx(namespaces, entry.ns), entry.name, entry.attrs,
                                      extract_dependencies(entry.attrs), {}, {}))
    /\ UNCHANGED <<phase, namespaces, ctx, run, hist, plan, last, tasks, lock, tabular, schema, calc>>

\* NamespaceHandle::add_command -> Pipeline<Draft>::add_command of a pipeline
\* whose registered hooks answer after_added_command with `outcomes`
AddCommandHooked(entry, outcomes) ==
    /\ phase = "Draft"
    /\ HasNamespace(namespaces, entry.ns)
    /\ HandleAddsCommands(namespaces[NameToIdx(namespaces, entry.ns)].ty)
    /\ Len(commands) < MaxCommands
    /\ LET namespace == NameToIdx(namespaces, entry.ns)
           duplicate == \E i \in DOMAIN commands :
                            /\ commands[i].namespace_index = namespace
                            /\ commands[i].name = entry.name
       IN /\ diag' = IF duplicate THEN "Command with name already exists in namespace"
                     ELSE hook_dispatch(outcomes)
          /\ commands' =
                IF duplicate THEN commands
                ELSE Append(commands,
                            CommandSpec(namespace, entry.name, entry.attrs,
                                        extract_dependencies(entry.attrs), {}, {}))
    /\ UNCHANGED <<phase, namespaces, ctx, run, hist>>
    /\ Frame

\* add_command of a pipeline without hooks
AddCommand(entry) == AddCommandHooked(entry, <<>>)

\* Pipeline::command_ns_pairs_iter: one (namespace name, command name) per command
command_ns_pairs_iter(nss, cmds) ==
    [i \in DOMAIN cmds |-> <<nss[cmds[i].namespace_index].name, cmds[i].name>>]

\* the name loop of compile: "" or the error of the first pair that fails
NameError(pairs) ==
    LET SeenNs(i) == \E j \in 1..(i - 1) : pairs[j][1] = pairs[i][1]
        SeenCmd(i) == \E j \in 1..(i - 1) : pairs[j] = pairs[i]
        Fails(i) == SeenNs(i) \/ pairs[i][1] \in RESERVED_NAMESPACES \/ SeenCmd(i)
    IN IF \A i \in DOMAIN pairs : ~Fails(i) THEN ""
       ELSE LET i == CHOOSE k \in DOMAIN pairs :
                        Fails(k) /\ \A j \in DOMAIN pairs : Fails(j) => k <= j
            IN IF SeenNs(i) THEN "Duplicate namespace name found during compilation"
               ELSE IF pairs[i][1] \in RESERVED_NAMESPACES
               THEN "Reserved namespace name used during compilation"
               ELSE "Duplicate command name found in namespace during compilation"

PlanError == "Execution plan validation failed during compilation: Circular dependency detected in namespace execution order"

\* the extension validation of compile: a single provider per extension,
\* and a provider for every required extension; "" or the error
ExtensionError(cmds) ==
    IF \E ext \in UNION {cmds[c].provides_extensions : c \in DOMAIN cmds} :
          Cardinality({c \in DOMAIN cmds : ext \in cmds[c].provides_extensions}) > 1
    THEN "Extension is provided by multiple commands"
    ELSE IF \E c \in DOMAIN cmds : \E ext \in cmds[c].requires_extensions :
               ~HasProvider(cmds, ext)
    THEN "Command requires extension, but no command provides it"
    ELSE ""

\* the checks of compile in order: "" or the first error
CompileError(nss, cmds) ==
    IF NameError(command_ns_pairs_iter(nss, cmds)) # ""
    THEN NameError(command_ns_pairs_iter(nss, cmds))
    ELSE IF \E i \in DOMAIN nss : nss[i].ty = "Iterative" /\ Len(nss[i].store_path) = 0
    THEN "Iterative namespace has an empty store_path"
    ELSE IF \E c \in DOMAIN cmds : "output" \notin DOMAIN cmds[c].attributes
    THEN "missing required attribute"
    ELSE IF ExtensionError(cmds) # "" THEN ExtensionError(cmds)
    ELSE IF ~compute_namespace_order(nss, cmds).ok THEN PlanError
    ELSE ""

\* Pipeline<Draft>::compile: consumes the Draft; Ready, or an error and no pipeline
Compile ==
    /\ phase = "Draft"
    /\ diag' = CompileError(namespaces, commands)
    /\ phase' = IF diag' = "" THEN "Ready" ELSE "Rejected"
    /\ UNCHANGED <<namespaces, commands, ctx, run, hist>>
    /\ Frame

\* Pipeline<Ready>::edit, Pipeline<Completed>::edit
Edit ==
    /\ phase \in {"Ready", "Completed"}
    /\ phase' = "Draft" /\ diag' = ""
    /\ ctx' = NewContext /\ hist' = <<>>
    /\ run' = [NoRun EXCEPT !.earlier = run.earlier \/ phase = "Completed"]
    /\ UNCHANGED <<namespaces, commands>>
    /\ Frame

\* Pipeline<Completed>::restart
Restart ==
    /\ phase = "Completed"
    /\ phase' = "Ready" /\ diag' = ""
    /\ ctx' = NewContext /\ hist' = <<>>
    /\ run' = [NoRun EXCEPT !.earlier = TRUE]
    /\ UNCHANGED <<namespaces, commands>>
    /\ Frame

(***************************************************************************)
(* Pipeline<Ready>::execute                                                *)
(***************************************************************************)
\* start_time.elapsed().as_millis() as u64
ElapsedMs == {3}

\* a status outside the documented ones
StatusUnknown == "unknown"

EXECUTION_STATUS_SUCCESS == "success"
EXECUTION_STATUS_SKIPPED == "skipped"
EXECUTION_STATUS_ERROR == "error"
EXECUTION_STATUS_CANCELLED == "cancelled"

RECURSIVE SeedValues(_, _, _, _)
\* the inserts of one Static namespace: [ok, ctx]
SeedValues(c, name, values, keys) ==
    IF keys = {} THEN [ok |-> TRUE, ctx |-> c]
    ELSE LET key == CHOOSE k \in keys : TRUE
             r == ScalarInsert(c, <<name, key>>, values[key])
         IN IF ~r.ok THEN r ELSE SeedValues(r.ctx, name, values, keys \ {key})

RECURSIVE SeedStatic(_, _, _)
\* execute: "Add in all values from Namespaces of type Static"
SeedStatic(c, nss, i) ==
    IF i > Len(nss) THEN [ok |-> TRUE, ctx |-> c]
    ELSE IF nss[i].ty # "Static" THEN SeedStatic(c, nss, i + 1)
    ELSE LET r == SeedValues(c, nss[i].name, nss[i].values, DOMAIN nss[i].values)
         IN IF ~r.ok THEN r ELSE SeedStatic(r.ctx, nss, i + 1)

\* the largest usize of the model; usize arithmetic wraps at MaxUsize + 1
MaxUsize == 7

\* a subtraction that wraps around
wrapping_sub(a, b) == (a - b + MaxUsize + 1) % (MaxUsize + 1)

\* usize::saturating_sub
saturating_sub(a, b) == IF a > b THEN a - b ELSE 0

RECURSIVE Skip(_, _)
\* Iterator::skip(n)
Skip(seq, n) == IF n = 0 \/ Len(seq) = 0 THEN seq ELSE Skip(Tail(seq), n - 1)

RECURSIVE Take(_, _)
\* Iterator::take(n)
Take(seq, n) == IF n = 0 \/ Len(seq) = 0 THEN <<>> ELSE <<Head(seq)>> \o Take(Tail(seq), n - 1)

\* the selection that keeps the listed keys whatever `exclude` says
KeepListed(in_list, exclude) == in_list

\* the filter of ScalarObjectKeys over one key, keys being Some(list)
KeptKey(in_list, exclude) == IF exclude THEN ~in_list ELSE in_list

\* the items of a ScalarArray source over the array arr
ArrayItems(arr, range) ==
    IF range = <<>> THEN arr
    ELSE Take(Skip(arr, range[1]), saturating_sub(range[2], range[1]))

\* resolve_iter_values: [ok, items], items the sequences the source may yield
\* (the keys of an object come in the order of the map implementation)
resolve_iter_values(c, ns) ==
    LET got == ScalarGet(c, ns.store_path)
        value == got.val.v
        keys == {key \in DOMAIN value.m :
                    IF ns.source.keys.some
                    THEN KeptKey(key \in ns.source.keys.list, ns.source.exclude)
                    ELSE TRUE}
    IN IF ~got.ok \/ ~got.val.some THEN [ok |-> FALSE, items |-> {}]
       ELSE IF ns.source.kind = "ScalarArray"
       THEN IF value.k = "arr"
            THEN [ok |-> TRUE, items |-> {ArrayItems(value.a, ns.source.range)}]
            ELSE [ok |-> FALSE, items |-> {}]
       ELSE IF value.k # "obj" THEN [ok |-> FALSE, items |-> {}]
       ELSE [ok |-> TRUE,
             items |-> {[i \in DOMAIN q |-> Str(q[i])] :
                          q \in {o \in [1..Cardinality(keys) -> keys] :
                                    \A i, j \in DOMAIN o : i # j => o[i] # o[j]}}]

\* substitute_attributes: every String attribute is rendered; [ok, attrs]
substitute_attributes(c, attrs) ==
    IF \E name \in DOMAIN attrs :
          attrs[name].k = "str" /\ ~render_template(c, attrs[name].a).ok
    THEN [ok |-> FALSE, attrs |-> EmptyMap]
    ELSE [ok |-> TRUE,
          attrs |-> [name \in DOMAIN attrs |->
                        IF attrs[name].k = "str"
                        THEN Str(render_template(c, attrs[name].a).s)
                        ELSE attrs[name]]]

\* FromAttributes::factory: validate, take `when`, build the instance
factory(attrs) ==
    [ok |-> "output" \in DOMAIN attrs /\ attrs["output"].k = "str",
     when |-> IF "when" \in DOMAIN attrs /\ attrs["when"].k = "str"
              THEN <<attrs["when"].s>> ELSE <<>>,
     output |-> IF "output" \in DOMAIN attrs THEN attrs["output"].s ELSE ""]

\* two InsertBatch writes in a row, each followed by `?`
Write2(c, prefix, seg1, v1, seg2, v2) ==
    LET r1 == ScalarInsert(c, WithSegment(prefix, seg1), v1)
    IN IF ~r1.ok THEN r1 ELSE ScalarInsert(r1.ctx, WithSegment(prefix, seg2), v2)

\* the inner command: stores the output it was built with as `content`,
\* or fails on I/O before it stores anything
InnerExecute(c, command, prefix, io_ok) ==
    IF ~io_ok THEN [ok |-> FALSE, ctx |-> c]
    ELSE ScalarInsert(c, WithSegment(prefix, "content"), Str(command.output))

\* format!("{{{{ {} }}}}", condition)
WhenTemplate(condition) ==
    IF condition \in {"true", "false"} THEN <<Lit(condition)>>
    ELSE <<Var(from_dotted(condition))>>

\* a wrapper that reports success whatever the inner command returned
WrapperSwallowsError(c, command, prefix, canceled, elapsed, io_ok) ==
    LET inner == InnerExecute(c, command, prefix, io_ok)
        w == Write2(inner.ctx, prefix, "duration_ms", Num(elapsed), "status",
                    Str(IF inner.ok THEN EXECUTION_STATUS_SUCCESS ELSE EXECUTION_STATUS_ERROR))
    IN [ok |-> w.ok, ctx |-> w.ctx, invoked |-> TRUE]

\* ExecutableWrapper::execute: [ok, ctx, invoked]
WrapperExecute(c, command, prefix, canceled, elapsed, io_ok) ==
    LET guard == render_template(c, WhenTemplate(command.when[1]))
        skipped == Write2(c, prefix, "status", Str(EXECUTION_STATUS_SKIPPED),
                          "duration_ms", Num(elapsed))
        cancelled == Write2(c, prefix, "status", Str(EXECUTION_STATUS_CANCELLED),
                            "duration_ms", Num(elapsed))
        inner == InnerExecute(c, command, prefix, io_ok)
        w == Write2(inner.ctx, prefix, "duration_ms", Num(elapsed), "status",
                    Str(IF inner.ok THEN EXECUTION_STATUS_SUCCESS ELSE EXECUTION_STATUS_ERROR))
    IN IF command.when # <<>> /\ ~guard.ok
       THEN [ok |-> FALSE, ctx |-> c, invoked |-> FALSE]
       ELSE IF command.when # <<>> /\ ~is_truthy(parse_scalar(guard.s))
       THEN [ok |-> skipped.ok, ctx |-> skipped.ctx, invoked |-> FALSE]
       ELSE IF canceled
       THEN [ok |-> cancelled.ok, ctx |-> cancelled.ctx, invoked |-> FALSE]
       ELSE [ok |-> w.ok /\ inner.ok, ctx |-> w.ctx, invoked |-> TRUE]

\* execute returned Err: the pipeline is consumed, ctx is the store it left
Fail(error, c) ==
    /\ phase' = "Failed" /\ diag' = error /\ ctx' = c
    /\ run' = [run EXCEPT !.pc = "-"]

\* execute up to the first group: fresh context, static values, ExecutionPlan::new
ExecuteStart ==
    /\ phase = "Ready"
    /\ LET seeded == SeedStatic(NewContext, namespaces, 1)
           planned == compute_namespace_order(namespaces, commands)
       IN IF ~seeded.ok
          THEN phase' = "Failed" /\ diag' = "insert failed" /\ ctx' = seeded.ctx /\ run' = NoRun
          ELSE IF ~planned.ok
          THEN /\ phase' = "Failed" /\ ctx' = seeded.ctx /\ run' = NoRun
               /\ diag' = "Circular dependency detected in namespace execution order"
          ELSE /\ phase' = "Running" /\ diag' = "" /\ ctx' = seeded.ctx
               /\ run' = [NoRun EXCEPT !.pc = "group", !.order = planned.order,
                                       !.earlier = run.earlier]
    /\ hist' = <<>>
    /\ UNCHANGED <<namespaces, commands>>
    /\ Frame

\* `for group_result in plan`: the next group and the match on its namespace type
NextGroup ==
    /\ phase = "Running" /\ run.pc = "group"
    /\ run.current < Len(run.order)
    /\ LET ns_idx == run.order[run.current + 1]
           namespace == namespaces[ns_idx]
           g == get_ordered_commands_for_namespace(namespaces, commands, ns_idx)
           resolved == resolve_iter_values(ctx, namespace)
           entered == [run EXCEPT !.current = @ + 1, !.ns = ns_idx, !.group = g.commands,
                                  !.next = 1, !.items = <<>>, !.index = 0]
       IN IF ~g.ok
          THEN Fail("Circular dependency detected in command execution order", ctx)
          ELSE IF namespace.ty = "Static"
          THEN run' = [entered EXCEPT !.pc = "group"] /\ UNCHANGED <<phase, diag, ctx>>
          ELSE IF namespace.ty = "Once"
          THEN run' = [entered EXCEPT !.pc = "commands"] /\ UNCHANGED <<phase, diag, ctx>>
          ELSE IF ~resolved.ok
          THEN Fail("iteration source not found or of the wrong type", ctx)
          ELSE /\ \E items \in resolved.items :
                     run' = [entered EXCEPT !.pc = "iteration", !.items = items]
               /\ UNCHANGED <<phase, diag, ctx>>
    /\ UNCHANGED <<namespaces, commands, hist>>
    /\ Frame

\* `for (index, item) in iter_items`: bind the iteration variables, or leave the loop
Iteration ==
    /\ phase = "Running" /\ run.pc = "iteration"
    /\ LET namespace == namespaces[run.ns]
           c1 == IF namespace.iter_var # <<>>
                 THEN InsertRaw(ctx, namespace.iter_var[1], run.items[run.index + 1]).ctx
                 ELSE ctx
           c2 == IF namespace.index_var # <<>>
                 THEN InsertRaw(c1, namespace.index_var[1], Num(run.index)).ctx
                 ELSE c1
       IN IF run.index >= Len(run.items)
          THEN run' = [run EXCEPT !.pc = "group"] /\ ctx' = ctx
          ELSE run' = [run EXCEPT !.pc = "commands", !.next = 1] /\ ctx' = c2
    /\ UNCHANGED <<phase, namespaces, commands, diag, hist>>
    /\ Frame

\* one turn of the loop of execute_commands
RunCommand ==
    /\ phase = "Running" /\ run.pc = "commands"
    /\ run.next <= Len(run.group)
    /\ \E elapsed \in ElapsedMs, io_ok \in BOOLEAN :
          LET spec == commands[run.group[run.next]]
              namespace == namespaces[run.ns]
              substituted == substitute_attributes(ctx, spec.attributes)
              built == factory(substituted.attrs)
              base == <<namespace.name, spec.name>>
              output_prefix == IF namespace.ty = "Iterative"
                               THEN WithIndex(base, run.index) ELSE base
              w == WrapperExecute(ctx, built, output_prefix, run.canceled, elapsed, io_ok)
              stage == IF ~substituted.ok THEN "substitute"
                       ELSE IF ~built.ok THEN "factory" ELSE "wrapper"
              after == IF stage = "wrapper" THEN w.ctx ELSE ctx
              event == [command |-> run.group[run.next], ns |-> run.ns,
                        iteration |-> IF namespace.ty = "Iterative" THEN run.index ELSE -1,
                        count |-> Len(run.items),
                        prefix |-> output_prefix, stage |-> stage,
                        ok |-> stage = "wrapper" /\ w.ok,
                        invoked |-> stage = "wrapper" /\ w.invoked,
                        status |-> ScalarGet(after, WithSegment(output_prefix, "status")).val,
                        duration_ms |-> ScalarGet(after, WithSegment(output_prefix, "duration_ms")).val]
          IN /\ hist' = Append(hist, event)
             /\ IF event.ok
                THEN /\ run' = [run EXCEPT !.next = @ + 1]
                     /\ ctx' = after /\ UNCHANGED <<phase, diag>>
                ELSE Fail("command failed", after)
    /\ UNCHANGED <<namespaces, commands>>
    /\ Frame

\* execute_commands returned Ok: remove the iteration variables, next iteration or group
EndCommands ==
    /\ phase = "Running" /\ run.pc = "commands"
    /\ run.next > Len(run.group)
    /\ LET namespace == namespaces[run.ns]
           c1 == IF namespace.iter_var # <<>>
                 THEN ScalarRemove(ctx, <<namespace.iter_var[1]>>).ctx ELSE ctx
           c2 == IF namespace.index_var # <<>>
                 THEN ScalarRemove(c1, <<namespace.index_var[1]>>).ctx ELSE c1
       IN IF namespace.ty = "Iterative"
          THEN run' = [run EXCEPT !.pc = "iteration", !.index = @ + 1] /\ ctx' = c2
          ELSE run' = [run EXCEPT !.pc = "group"] /\ ctx' = ctx
    /\ UNCHANGED <<phase, namespaces, commands, diag, hist>>
    /\ Frame

\* the plan is exhausted: Ok(Pipeline<Completed>)
Finish ==
    /\ phase = "Running" /\ run.pc = "group"
    /\ run.current >= Len(run.order)
    /\ phase' = "Completed"
    /\ run' = [run EXCEPT !.pc = "-"]
    /\ UNCHANGED <<namespaces, commands, diag, ctx, hist>>
    /\ Frame

\* Extensions::cancel on the token of the running context
Cancel ==
    /\ phase = "Running" /\ ~run.canceled
    /\ run' = [run EXCEPT !.canceled = TRUE]
    /\ UNCHANGED <<phase, namespaces, commands, diag, ctx, hist>>
    /\ Frame

Next ==
    \/ \E builder \in NsCatalogue : AddNamespace(builder)
    \/ \E entry \in CmdCatalogue : AddCommand(entry)
    \/ Compile
    \/ Edit
    \/ Restart
    \/ ExecuteStart
    \/ NextGroup
    \/ Iteration
    \/ RunCommand
    \/ EndCommands
    \/ Finish
    \/ Cancel

Spec == Init /\ [][Next]_vars

(***************************************************************************)
(* Properties of the lifecycle and the driver                              *)
(***************************************************************************)
\* the wrapper of the command of event e was entered and has returned
Returned(e) == e.stage = "wrapper"

\* C1: for every command the driver runs, once ExecutableWrapper::execute has
\* returned (Ok or Err), `status` and a non-negative `duration_ms` exist in
\* the store under the command's output prefix.
C1_StatusAndDurationWritten ==
    \A i \in DOMAIN hist :
        Returned(hist[i]) =>
            /\ hist[i].status.some
            /\ hist[i].duration_ms.some
            /\ hist[i].duration_ms.v.k = "num"
            /\ hist[i].duration_ms.v.n >= 0

Cyclic == ~Acyclic(NamespaceEdges) \/ ~Acyclic(GroupEdges)

\* C2: compile() fails with a cycle diagnostic whenever the dependency graph
\* is cyclic (between namespaces, or between commands of one namespace), so
\* no cyclic pipeline gets past compile and execute() never fails with a
\* circular-dependency error.
C2_CyclesRejectedByCompile ==
    /\ (Cyclic /\ phase # "Draft") => (phase = "Rejected" /\ diag = PlanError)
    /\ phase = "Failed" =>
          diag \notin {"Circular dependency detected in namespace execution order",
                       "Circular dependency detected in command execution order"}

\* the execute of the command of event e returned an error
Erred(e) == Returned(e) /\ (~e.ok \/ e.status = Some(Str(EXECUTION_STATUS_ERROR)))

\* C5: if a command's execute returns an error, Pipeline<Ready>::execute
\* returns that error and no Completed pipeline; after the failure no later
\* command and no further iteration is started, and nothing is run twice.
C5_FailureAbortsRun ==
    /\ \A i \in DOMAIN hist :
          Erred(hist[i]) => (i = Len(hist) /\ phase = "Failed" /\ diag = "command failed")
    /\ \A i, j \in DOMAIN hist :
          (hist[i].command = hist[j].command /\ hist[i].iteration = hist[j].iteration)
              => i = j
    /\ phase = "Completed" => \A i \in DOMAIN hist : hist[i].ok

\* an inner command failed in the first iteration, with iterations and a
\* later namespace group still to come
C5_FailedMidway ==
    /\ phase = "Failed"
    /\ Len(hist) = 1
    /\ hist[1].invoked /\ hist[1].status = Some(Str(EXECUTION_STATUS_ERROR))
    /\ hist[1].iteration = 0 /\ hist[1].count > 1
    /\ run.current < Len(run.order)
    /\ \E c \in DOMAIN commands : commands[c].namespace_index # hist[1].ns

\* the number of items the source of iterative namespace n resolves to
ItemCount(n) ==
    LET r == resolve_iter_values(ctx, namespaces[n])
    IN IF r.ok THEN Len(CHOOSE items \in r.items : TRUE) ELSE 0

ResultSegments == {"status", "duration_ms", "content"}

\* C6: an Iterative namespace over N items writes each command's results
\* under [namespace, command, i] for exactly i = 0..N-1, one prefix per
\* iteration, and nothing at [namespace, command]; commands of other
\* namespaces write under [namespace, command].
C6_IndexedPrefixes ==
    /\ \A i \in DOMAIN hist :
          LET e == hist[i]
              base == <<namespaces[e.ns].name, commands[e.command].name>>
          IN IF namespaces[e.ns].ty = "Iterative"
             THEN /\ e.iteration \in 0..(e.count - 1)
                  /\ e.prefix = <<base[1], base[2], ToString(e.iteration)>>
             ELSE e.prefix = base
    /\ phase = "Completed" =>
          \A c \in DOMAIN commands :
             LET n == commands[c].namespace_index
                 base == <<namespaces[n].name, commands[c].name>>
             IN IF namespaces[n].ty = "Iterative"
                THEN /\ {hist[i].iteration : i \in {j \in DOMAIN hist : hist[j].command = c}}
                           = 0..(ItemCount(n) - 1)
                     /\ \A k \in 0..(ItemCount(n) - 1) :
                           ScalarGet(ctx, <<base[1], base[2], ToString(k), "status">>).val.some
                     /\ \A seg \in ResultSegments :
                           /\ ~ScalarGet(ctx, <<base[1], base[2], seg>>).val.some
                           /\ ~ScalarGet(ctx, <<base[1], base[2], ToString(ItemCount(n)), seg>>).val.some
                ELSE ScalarGet(ctx, <<base[1], base[2], "status">>).val.some

\* a completed run of an iterative namespace over three items next to a
\* command of a Once namespace
C6_IteratedAndPlain ==
    /\ phase = "Completed"
    /\ \E c, d \in DOMAIN commands :
          /\ namespaces[commands[c].namespace_index].ty = "Iterative"
          /\ ItemCount(commands[c].namespace_index) = 3
          /\ Cardinality({i \in DOMAIN hist : hist[i].command = c /\ hist[i].invoked}) = 3
          /\ namespaces[commands[d].namespace_index].ty = "Once"
          /\ \E i \in DOMAIN hist : hist[i].command = d /\ hist[i].invoked

\* C7: while iteration i of an Iterative namespace runs, the store binds the
\* iteration variable (iter_var, `item` if none was configured) to the i-th
\* item and the index variable (index_var, `index` if none) to i, so the
\* attributes of its commands render.
C7_IterationVariablesBound ==
    /\ (phase = "Running" /\ run.pc = "commands" /\ namespaces[run.ns].ty = "Iterative") =>
          LET namespace == namespaces[run.ns]
              iter == IF namespace.iter_var = <<>> THEN DEFAULT_ITER_VAR
                      ELSE namespace.iter_var[1]
              index == IF namespace.index_var = <<>> THEN DEFAULT_INDEX_VAR
                       ELSE namespace.index_var[1]
          IN /\ Lookup(ctx, <<iter>>) = Some(run.items[run.index + 1])
             /\ Lookup(ctx, <<index>>) = Some(Num(run.index))
    /\ \A i \in DOMAIN hist :
          (/\ namespaces[hist[i].ns].ty = "Iterative"
           /\ commands[hist[i].command].dependencies = {<<"item">>, <<"index">>})
              => Returned(hist[i])

\* namespace x has a command with a dependency rooted at namespace y, or is
\* Iterative with a store_path rooted at y
RootedAt(x, y) ==
    /\ x # y
    /\ \/ namespaces[x].ty = "Iterative" /\ namespaces[x].store_path[1] = namespaces[y].name
       \/ \E c \in DOMAIN commands :
             /\ commands[c].namespace_index = x
             /\ \E dep \in commands[c].dependencies : dep[1] = namespaces[y].name

\* C8: if a command of namespace X has a dependency rooted at another
\* namespace Y, or X is Iterative over a path rooted at Y, every command and
\* every iteration of Y has finished before the first command of X starts.
C8_ProducerNamespaceFirst ==
    \A i \in DOMAIN hist : \A y \in DOMAIN namespaces :
        RootedAt(hist[i].ns, y) =>
            /\ Pos(run.order, y) < Pos(run.order, hist[i].ns)
            /\ \A j \in DOMAIN hist : hist[j].ns = y => j < i
            /\ \A c \in DOMAIN commands :
                  commands[c].namespace_index = y =>
                      LET before == {m \in 1..(i - 1) : hist[m].command = c}
                          ran == {hist[m].iteration : m \in before}
                      IN IF namespaces[y].ty = "Iterative"
                         THEN \A m \in before : ran = 0..(hist[m].count - 1)
                         ELSE ran = {-1}

\* a command of a namespace added first ran after all three iterations of
\* the iterative namespace it reads from
C8_ConsumerAfterIterations ==
    /\ phase = "Completed"
    /\ \E i \in DOMAIN hist : \E y \in DOMAIN namespaces :
          /\ RootedAt(hist[i].ns, y)
          /\ hist[i].ns < y
          /\ namespaces[y].ty = "Iterative"
          /\ Cardinality({j \in 1..(i - 1) : hist[j].ns = y /\ hist[j].invoked}) = 3
          /\ hist[i].invoked

(***************************************************************************)
(* SpecLock: several tasks call the ScalarStore and TabularStore API on    *)
(* one ExecutionContext.  There are three tokio RwLocks: ScalarStore.tera, *)
(* ScalarStore.store and TabularStore.store.  A tokio RwLock is fair: the  *)
(* waiters queue up in the order of their requests and the one at the head *)
(* is served when the lock is compatible with its mode.                    *)
(***************************************************************************)
MaxLockTasks == 3

\* the calls a task may make; `parses` is whether tera accepts the template
LockCalls ==
    {[store |-> "scalar", op |-> "insert", key |-> <<"ns", "y", "z">>, parts |-> <<>>, parses |-> TRUE],
     [store |-> "scalar", op |-> "get", key |-> <<"ns", "y">>, parts |-> <<>>, parses |-> TRUE],
     [store |-> "scalar", op |-> "remove", key |-> <<"ns">>, parts |-> <<>>, parses |-> TRUE],
     [store |-> "scalar", op |-> "remove", key |-> <<>>, parts |-> <<>>, parses |-> TRUE],
     [store |-> "scalar", op |-> "render_template", key |-> <<>>,
      parts |-> <<Var(<<"ns", "y">>)>>, parses |-> TRUE],
     [store |-> "scalar", op |-> "render_template", key |-> <<>>,
      parts |-> <<>>, parses |-> FALSE],
     [store |-> "tabular", op |-> "insert", key |-> <<"ns", "t">>, parts |-> <<>>, parses |-> TRUE],
     [store |-> "tabular", op |-> "get", key |-> <<"ns", "t">>, parts |-> <<>>, parses |-> TRUE]}

\* a variant in which ScalarStore::insert also takes the tera lock, after the
\* lock of the store
LocksInsertNested(call) ==
    IF call.store = "tabular"
    THEN <<[lock |-> "tabular", mode |-> IF call.op = "get" THEN "r" ELSE "w"]>>
    ELSE IF call.op = "render_template"
    THEN <<[lock |-> "tera", mode |-> "w"], [lock |-> "scalar", mode |-> "r"]>>
    ELSE IF call.op = "insert"
    THEN <<[lock |-> "scalar", mode |-> "w"], [lock |-> "tera", mode |-> "w"]>>
    ELSE <<[lock |-> "scalar", mode |-> IF call.op = "get" THEN "r" ELSE "w"]>>

\* the `.read().await` / `.write().await` of each method, in program order
Locks(call) ==
    IF call.store = "tabular"
    THEN <<[lock |-> "tabular", mode |-> IF call.op = "get" THEN "r" ELSE "w"]>>
    ELSE IF call.op = "render_template"
    THEN <<[lock |-> "tera", mode |-> "w"], [lock |-> "scalar", mode |-> "r"]>>
    ELSE <<[lock |-> "scalar", mode |-> IF call.op = "get" THEN "r" ELSE "w"]>>

\* `?` on the namespace of the key before the lock is requested
\* (ScalarStore::insert and ::remove; ::get applies it under the lock)
FailsBeforeLock(call) ==
    call.store = "scalar" /\ call.op \in {"insert", "remove"} /\ Len(call.key) = 0

\* the permits of the lock allow the mode
Compatible(l, mode) ==
    IF mode = "w" THEN l.writer = 0 /\ l.readers = {} ELSE l.writer = 0

\* the guard of task t is dropped
Dropped(l, t) ==
    [l EXCEPT !.writer = IF @ = t THEN 0 ELSE @, !.readers = @ \ {t}]

LkInit ==
    /\ IdlePipeline /\ IdleRun /\ IdlePlan /\ IdleStore
    /\ ctx = ConcStart
    /\ tabular = EmptyMap /\ IdleSchema
    /\ lock = [n \in {"tera", "scalar", "tabular"} |->
                  [writer |-> 0, readers |-> {}, queue |-> <<>>]]
    /\ tasks \in [1..MaxLockTasks ->
                    {[call |-> c, pc |-> "start", held |-> 0, ok |-> TRUE] : c \in LockCalls}]

\* the task reaches its next `.await` on a lock and joins the queue
LkRequest(t) ==
    /\ tasks[t].pc \in {"start", "run"}
    /\ tasks[t].held < Len(Locks(tasks[t].call))
    /\ ~(tasks[t].held = 0 /\ FailsBeforeLock(tasks[t].call))
    /\ ~(tasks[t].held = 1 /\ ~tasks[t].call.parses)
    /\ LET want == Locks(tasks[t].call)[tasks[t].held + 1] IN
       lock' = [lock EXCEPT ![want.lock].queue = Append(@, t)]
    /\ tasks' = [tasks EXCEPT ![t].pc = "wait"]
    /\ UNCHANGED ctx /\ CFrame

\* the lock is granted to the waiter at the head of its queue
LkGrant(t) ==
    /\ tasks[t].pc = "wait"
    /\ LET want == Locks(tasks[t].call)[tasks[t].held + 1]
           l == lock[want.lock]
       IN /\ l.queue # <<>> /\ Head(l.queue) = t
          /\ Compatible(l, want.mode)
          /\ lock' = [lock EXCEPT ![want.lock] =
                        [writer |-> IF want.mode = "w" THEN t ELSE l.writer,
                         readers |-> IF want.mode = "r" THEN l.readers \cup {t} ELSE l.readers,
                         queue |-> Tail(l.queue)]]
    /\ tasks' = [tasks EXCEPT ![t].pc = "run", ![t].held = @ + 1]
    /\ UNCHANGED ctx /\ CFrame

\* the rest of the method: its effect on the store, then every guard dropped
LkReturn(t) ==
    /\ tasks[t].pc \in {"start", "run"}
    /\ LET call == tasks[t].call
           early == \/ tasks[t].held = 0 /\ FailsBeforeLock(call)
                    \/ tasks[t].held = 1 /\ ~call.parses
       IN /\ early \/ tasks[t].held = Len(Locks(call))
          /\ lock' = [n \in (DOMAIN lock) |-> Dropped(lock[n], t)]
          /\ IF early
             THEN /\ tasks' = [tasks EXCEPT ![t].pc = "done", ![t].ok = FALSE]
                  /\ UNCHANGED <<ctx, tabular>>
             ELSE IF call.store = "tabular"
             THEN /\ tabular' = IF call.op = "insert" THEN Put(tabular, to_dotted(call.key), "df")
                                ELSE IF call.op = "remove" THEN Del(tabular, to_dotted(call.key))
                                ELSE tabular
                  /\ tasks' = [tasks EXCEPT ![t].pc = "done"]
                  /\ UNCHANGED ctx
             ELSE /\ tasks' = [tasks EXCEPT ![t].pc = "done",
                                 ![t].ok = IF call.op = "insert" THEN ScalarInsert(ctx, call.key, Num(1)).ok
                                           ELSE IF call.op = "get" THEN ScalarGet(ctx, call.key).ok
                                           ELSE IF call.op = "remove" THEN ScalarRemove(ctx, call.key).ok
                                           ELSE render_template(ctx, call.parts).ok]
                  /\ ctx' = IF call.op = "insert" THEN ScalarInsert(ctx, call.key, Num(1)).ctx
                            ELSE IF call.op = "remove" THEN ScalarRemove(ctx, call.key).ctx
                            ELSE ctx
                  /\ UNCHANGED tabular
    /\ UNCHANGED <<phase, namespaces, commands, diag, run, hist, plan, last, schema, calc>>

LkNext == \E t \in (1..MaxLockTasks) : LkRequest(t) \/ LkGrant(t) \/ LkReturn(t)

SpecLock == LkInit /\ [][LkNext]_vars

Holds(t, n) == lock[n].writer = t \/ t \in lock[n].readers

Waits(t, n) == \E i \in DOMAIN lock[n].queue : lock[n].queue[i] = t

\* C11: no task holds the locks of the scalar store and of the tabular store
\* together; a task that holds one lock and holds or awaits another one is
\* inside render_template, holding the tera write lock and taking the read
\* lock of the scalar store; and as long as a call has not returned, some
\* task can take a step (no interleaving of the calls deadlocks).
C11_NoLockCycle ==
    /\ \A t \in (1..MaxLockTasks) :
          ~(Holds(t, "tabular") /\ (Holds(t, "scalar") \/ Holds(t, "tera")))
    /\ \A t \in (1..MaxLockTasks) : \A n, m \in (DOMAIN lock) :
          (n # m /\ Holds(t, n) /\ Waits(t, m))
          => /\ n = "tera" /\ m = "scalar"
             /\ tasks[t].call.op = "render_template"
    /\ \A t \in (1..MaxLockTasks) :
          (Holds(t, "tera") /\ Holds(t, "scalar"))
          => /\ lock["tera"].writer = t /\ t \in lock["scalar"].readers
             /\ tasks[t].call.op = "render_template"
    /\ (\E t \in (1..MaxLockTasks) : tasks[t].pc # "done") => ENABLED LkNext

\* render_template holds the tera lock and awaits the scalar store, whose
\* write lock an insert or remove holds, while a third call queues for tera
C11_RenderBehindWriter ==
    \E t, u, w \in (1..MaxLockTasks) :
        /\ Holds(t, "tera") /\ Waits(t, "scalar")
        /\ lock["scalar"].writer = u
        /\ Waits(w, "tera")

(***************************************************************************)
(* SpecSchema: a caller builds a command schema with CommandSpecBuilder.   *)
(*   schema.attributes, schema.results  the builder's vectors              *)
(*   schema.pending   <<>> or <<[name, fields]>>: the PendingAttribute and  *)
(*                    the ObjectFields the caller holds                    *)
(*   schema.tokens    names of the LiteralFieldRef values the caller holds *)
(*   schema.state     "building" | "built" | "panicked"                    *)
(* The caller declares at most one field per object and one result.        *)
(***************************************************************************)
MaxAttributes == 2

\* names the caller passes for attributes, fields and results
SchemaNames == {"a", "b", "item", "a-b"}

AllowedChars ==
    {"a", "b", "c", "d", "e", "f", "g", "h", "i", "j", "k", "l", "m", "n", "o", "p", "q",
     "r", "s", "t", "u", "v", "w", "x", "y", "z", "A", "B", "C", "D", "E", "F", "G", "H",
     "I", "J", "K", "L", "M", "N", "O", "P", "Q", "R", "S", "T", "U", "V", "W", "X", "Y",
     "Z", "0", "1", "2", "3", "4", "5", "6", "7", "8", "9", "_"}

\* NamePolicy::validate of DEFAULT_NAME_POLICY: TRUE when it does not panic
validate(name) ==
    /\ name \notin {"item", "index"}
    /\ ~\E i \in 1..Len(name) : SubSeq(name, i, i) \notin AllowedChars

\* CommandSpecBuilder::build: TRUE when no check panics
BuildPasses(attributes, results) ==
    /\ \A r \in DOMAIN results :
          results[r].kind = "Derived"
          => /\ \E i \in DOMAIN attributes : attributes[i].name = results[r].attribute
             /\ LET i == CHOOSE k \in DOMAIN attributes :
                            /\ attributes[k].name = results[r].attribute
                            /\ \A j \in 1..(k - 1) : attributes[j].name # results[r].attribute
                IN /\ attributes[i].ty = "ArrayOf(ObjectOf)"
                   /\ \E f \in DOMAIN attributes[i].fields :
                         attributes[i].fields[f].name = results[r].name_field
    /\ \A i \in DOMAIN attributes : validate(attributes[i].name)
    /\ \A r \in DOMAIN results : results[r].kind = "Field" => validate(results[r].name)

ScInit ==
    /\ IdlePipeline /\ IdleRun /\ IdlePlan /\ IdleStore /\ IdleConc
    /\ ctx = NewContext
    /\ calc = <<>>
    /\ schema = [attributes |-> <<>>, results |-> <<>>, pending |-> <<>>,
                 tokens |-> {}, state |-> "building"]

ScFrame == UNCHANGED <<phase, namespaces, commands, diag, ctx, run, hist, plan, last, tasks, lock, tabular, calc>>

\* CommandSpecBuilder::attribute with a scalar AttributeSpec
ScAttribute(name) ==
    /\ schema.state = "building" /\ schema.pending = <<>>
    /\ Len(schema.attributes) < MaxAttributes
    /\ schema' = [schema EXCEPT !.attributes =
                     Append(@, [name |-> name, ty |-> "Scalar", fields |-> <<>>])]
    /\ ScFrame

\* CommandSpecBuilder::array_of_objects: the builder moves into the PendingAttribute
ScArrayOfObjects(name) ==
    /\ schema.state = "building" /\ schema.pending = <<>>
    /\ Len(schema.attributes) < MaxAttributes
    /\ schema' = [schema EXCEPT !.pending = <<[name |-> name, fields |-> <<>>]>>]
    /\ ScFrame

\* ObjectFields::add_literal: pushes the field and hands out a LiteralFieldRef
ScAddLiteral(name) ==
    /\ schema.state = "building" /\ schema.pending # <<>>
    /\ schema.pending[1].fields = <<>>
    /\ schema' = [schema EXCEPT
                     !.pending[1].fields =
                         Append(@, [name |-> name, reference_kind |-> "Unsupported"]),
                     !.tokens = @ \cup {name}]
    /\ ScFrame

\* ObjectFields::add_template: pushes the field, no LiteralFieldRef
ScAddTemplate(name, kind) ==
    /\ schema.state = "building" /\ schema.pending # <<>>
    /\ schema.pending[1].fields = <<>>
    /\ schema' = [schema EXCEPT
                     !.pending[1].fields = Append(@, [name |-> name, reference_kind |-> kind])]
    /\ ScFrame

\* PendingAttribute::finalise_attribute, with ObjectFields::build inside
ScFinalise ==
    /\ schema.state = "building" /\ schema.pending # <<>>
    /\ LET pending == schema.pending[1] IN
       IF \A f \in DOMAIN pending.fields : validate(pending.fields[f].name)
       THEN schema' = [schema EXCEPT
                          !.attributes = Append(@, [name |-> pending.name,
                                                    ty |-> "ArrayOf(ObjectOf)",
                                                    fields |-> pending.fields]),
                          !.pending = <<>>]
       ELSE schema' = [schema EXCEPT !.state = "panicked", !.pending = <<>>]
    /\ ScFrame

\* CommandSpecBuilder::fixed_result
ScFixedResult(name) ==
    /\ schema.state = "building" /\ schema.pending = <<>>
    /\ schema.results = <<>>
    /\ schema' = [schema EXCEPT !.results =
                     Append(@, [kind |-> "Field", name |-> name, attribute |-> "",
                                name_field |-> ""])]
    /\ ScFrame

\* CommandSpecBuilder::derived_result with a LiteralFieldRef the caller holds
ScDerivedResult(attribute, token) ==
    /\ schema.state = "building" /\ schema.pending = <<>>
    /\ schema.results = <<>>
    /\ token \in schema.tokens
    /\ schema' = [schema EXCEPT !.results =
                     Append(@, [kind |-> "Derived", name |-> "", attribute |-> attribute,
                                name_field |-> token])]
    /\ ScFrame

\* CommandSpecBuilder::build
ScBuild ==
    /\ schema.state = "building" /\ schema.pending = <<>>
    /\ schema' = [schema EXCEPT !.state =
                     IF BuildPasses(schema.attributes, schema.results)
                     THEN "built" ELSE "panicked"]
    /\ ScFrame

ScNext ==
    \/ \E name \in SchemaNames : ScAttribute(name)
    \/ \E name \in SchemaNames : ScArrayOfObjects(name)
    \/ \E name \in SchemaNames : ScAddLiteral(name)
    \/ \E name \in SchemaNames, kind \in {"StaticTeraTemplate"} : ScAddTemplate(name, kind)
    \/ ScFinalise
    \/ \E name \in SchemaNames : ScFixedResult(name)
    \/ \E attribute, token \in SchemaNames : ScDerivedResult(attribute, token)
    \/ ScBuild

SpecSchema == ScInit /\ [][ScNext]_vars

\* the fields that a derived result takes its names from: those called
\* name_field in the first attribute called `attribute`
NameFields(result) ==
    UNION {{a.fields[f] : f \in {g \in DOMAIN a.fields : a.fields[g].name = result.name_field}} :
              a \in {schema.attributes[i] :
                        i \in {k \in DOMAIN schema.attributes :
                                  /\ schema.attributes[k].name = result.attribute
                                  /\ \A j \in 1..(k - 1) :
                                        schema.attributes[j].name # result.attribute}}}

\* C12: in a schema returned by build, every derived result takes its names
\* from a field of its attribute that is literal (ReferenceKind Unsupported,
\* as add_literal declares it), never from a field declared with add_template.
C12_DerivedNamesAreLiteral ==
    schema.state = "built"
    => \A r \in DOMAIN schema.results :
          schema.results[r].kind = "Derived"
          => /\ NameFields(schema.results[r]) # {}
             /\ \A field \in NameFields(schema.results[r]) :
                   field.reference_kind = "Unsupported"

(***************************************************************************)
(* Properties of the commands and namespaces of a pipeline (Spec)          *)
(***************************************************************************)
\* the template variables of an attribute: those of the text itself for the
\* Static template `output`, those of {{ condition }} for the Runtime
\* template `when`
AttributeVars(name, value) ==
    IF name = "when" THEN TemplateVars(TemplateText(WhenTemplate(value.a[1].lit)))
    ELSE TemplateVars(value)

\* C13: the dependency set cached on a command when it was added contains
\* the path of every template variable of every attribute, the common
\* attribute `when` included.
C13_DependenciesCoverAttributes ==
    \A i \in DOMAIN commands : \A name \in DOMAIN commands[i].attributes :
        AttributeVars(name, commands[i].attributes[name]) \subseteq commands[i].dependencies

(***************************************************************************)
(* SpecNames: the lifecycle of Spec, driven with namespace builders whose  *)
(* names are unusual: empty, reserved, or with a character outside         *)
(* [a-zA-Z0-9_].                                                           *)
(***************************************************************************)
NamedBuilders ==
    {OnceNs("a"), OnceNs("a-b"), OnceNs(""), OnceNs("item"),
     StaticNs("", EmptyMap), StaticNs("index", EmptyMap),
     IterativeNs("item", <<"a", "c", "content">>, ScalarArray, <<>>, <<>>)}

NamedCommands ==
    {[ns |-> ns, name |-> "c", attrs |-> Attrs(<<Lit("x")>>, <<>>)] : ns \in {"a", "a-b", ""}}

NextNames ==
    \/ \E builder \in NamedBuilders : AddNamespace(builder)
    \/ \E entry \in NamedCommands : AddCommand(entry)
    \/ Compile
    \/ Edit
    \/ Restart
    \/ ExecuteStart
    \/ NextGroup
    \/ RunCommand
    \/ EndCommands
    \/ Finish

SpecNames == Init /\ [][NextNames]_vars

\* C14: no namespace of a pipeline that reached Ready has a name that is
\* reserved (`item`, `index`) or contains a character outside [a-zA-Z0-9_]:
\* add_namespace or compile has returned an error for it.
C14_InvalidNamesRejected ==
    phase \in {"Ready", "Running", "Completed"}
    => \A i \in DOMAIN namespaces : validate(namespaces[i].name)

\* the `status` values found in the store after the wrapper has run
StatusesWritten == {hist[i].status.v : i \in {j \in DOMAIN hist : hist[j].status.some}}

Guarded(e) == "when" \in DOMAIN commands[e.command].attributes

\* C16: evaluating a command's `when` guard never makes the wrapper return an
\* error: a wrapper that returned without invoking the inner command returned
\* Ok, and the command is recorded with status skipped or error.
C16_GuardNeverRaises ==
    \A i \in DOMAIN hist :
        (Returned(hist[i]) /\ Guarded(hist[i]) /\ ~hist[i].invoked)
            => /\ hist[i].ok
               /\ hist[i].status \in {Some(Str("skipped")), Some(Str("error"))}

\* the names found in the store under the output prefix of event e
ResultsUnder(e) ==
    LET found == Lookup(ctx, e.prefix)
    IN IF found.some /\ found.v.k = "obj" THEN DOMAIN found.v.m ELSE {}

\* the wrapper of the command of event e ran with a `when` guard whose
\* expression renders to a falsy value (false, null, 0 or the empty string)
GuardFalsy(e) ==
    /\ Returned(e) /\ Guarded(e)
    /\ LET condition == commands[e.command].attributes["when"].a[1].lit
           guard == render_template(ctx, WhenTemplate(condition))
       IN guard.ok /\ guard.s \in {"false", "null", "0", ""}

\* C17: when a command's `when` guard is falsy the inner command is not
\* invoked, status is skipped, the wrapper returns Ok and the driver goes on
\* to the next command, and nothing but status and duration_ms exists under
\* the command's output prefix.
C17_FalsyGuardSkips ==
    \A i \in DOMAIN hist :
        GuardFalsy(hist[i])
            => /\ ~hist[i].invoked
               /\ hist[i].status = Some(Str("skipped"))
               /\ hist[i].ok
               /\ ~(phase = "Failed" /\ diag = "command failed" /\ i = Len(hist))
               /\ ResultsUnder(hist[i]) = {"status", "duration_ms"}

\* a guarded command was skipped and the driver ran the next command
C17_SkippedThenNext ==
    \E i, j \in DOMAIN hist :
        /\ i < j
        /\ GuardFalsy(hist[i])
        /\ hist[j].invoked

\* the names the Iterative namespaces of the pipeline bind on each iteration
IterationVars ==
    UNION {{namespaces[n].iter_var[i] : i \in DOMAIN namespaces[n].iter_var}
           \cup {namespaces[n].index_var[i] : i \in DOMAIN namespaces[n].index_var} :
           n \in {m \in DOMAIN namespaces : namespaces[m].ty = "Iterative"}}

\* C18: after each iteration that completed without error the iteration
\* variables are removed before the next iteration or the next namespace
\* starts; between iterations, between namespaces and after a successful
\* execute() no iteration variable is a top-level key of the scalar store and
\* a template that references one does not render.
C18_IterationVarsRemoved ==
    (phase = "Completed" \/ (phase = "Running" /\ run.pc \in {"iteration", "group"}))
        => \A v \in IterationVars :
              /\ v \notin DOMAIN ctx
              /\ ~render_template(ctx, <<Var(<<v>>)>>).ok

\* execute() succeeded after a namespace with both variables ran a command
\* that used them in its second iteration
C18_IteratedAndCompleted ==
    /\ phase = "Completed"
    /\ \E i \in DOMAIN hist :
          /\ hist[i].iteration >= 1 /\ hist[i].invoked /\ hist[i].ok
          /\ namespaces[hist[i].ns].iter_var # <<>>
          /\ namespaces[hist[i].ns].index_var # <<>>

\* C19: after any sequence of add_namespace, add_command, compile, execute,
\* edit and restart, no two commands of the pipeline share both their
\* namespace and their name.
C19_CommandNamesUnique ==
    \A i, j \in DOMAIN commands :
        (/\ namespaces[commands[i].namespace_index].name
               = namespaces[commands[j].namespace_index].name
         /\ commands[i].name = commands[j].name)
            => i = j

\* add_command has refused a name that its namespace already has
C19_DuplicateRefused ==
    /\ phase = "Draft"
    /\ diag = "Command with name already exists in namespace"
    /\ commands # <<>>

\* C20: in every reachable pipeline state the namespace names are pairwise
\* distinct, non-empty, and none is `item` or `index`, whatever the kind of
\* the namespace (Once, Iterative, Static).
C20_NamespaceNamesWellFormed ==
    /\ \A i, j \in DOMAIN namespaces : namespaces[i].name = namespaces[j].name => i = j
    /\ \A i \in DOMAIN namespaces :
          /\ namespaces[i].name # ""
          /\ namespaces[i].name \notin RESERVED_NAMESPACES

\* the events of command c in the run
EventsOf(c) == {i \in DOMAIN hist : hist[i].command = c}

C22_FailedCompileBackToDraft ==
    (phase \notin {"Ready", "Running", "Completed", "Failed"}
     /\ diag = CompileError(namespaces, commands) /\ diag # "")
        => (phase = "Draft" /\ ENABLED Compile)

(***************************************************************************)
(* SpecPath: StorePath::to_dotted and StorePath::from_dotted applied one   *)
(* after the other, to a path and to a dotted string.                      *)
(***************************************************************************)
MaxSegments == 3

\* segments of the paths: plain, with a digit, empty, with a dot
PathSegments == {"a", "b1", "", "a.b"}

PathInputs == UNION {[1..n -> PathSegments] : n \in 0..MaxSegments}

DottedInputs == {"", "a", "a.b1", "a..b", ".a", "a.", "a.b.c"}

Idle == IdlePipeline /\ IdleRun /\ IdlePlan /\ IdleStore /\ IdleConc /\ schema = <<>> /\ ctx = NewContext

\* a StorePath from segments, or a dotted string; `arg` keeps the input
PathInit ==
    /\ Idle
    /\ \/ \E path \in PathInputs :
             calc = [from |-> "path", arg |-> path, path |-> path, dotted |-> "", done |-> 0]
       \/ \E dotted \in DottedInputs :
             calc = [from |-> "dotted", arg |-> dotted, path |-> <<>>, dotted |-> dotted, done |-> 0]

CalcFrame == UNCHANGED <<phase, namespaces, commands, diag, ctx, run, hist, plan, last, tasks, lock, tabular, schema>>

\* path.to_dotted()
ToDotted ==
    /\ \/ calc.from = "path" /\ calc.done = 0
       \/ calc.from = "dotted" /\ calc.done = 1
    /\ calc' = [calc EXCEPT !.dotted = to_dotted(calc.path), !.done = @ + 1]
    /\ CalcFrame

\* StorePath::from_dotted(dotted)
FromDotted ==
    /\ \/ calc.from = "dotted" /\ calc.done = 0
       \/ calc.from = "path" /\ calc.done = 1
    /\ calc' = [calc EXCEPT !.path = from_dotted(calc.dotted), !.done = @ + 1]
    /\ CalcFrame

NextPath == ToDotted \/ FromDotted

SpecPath == PathInit /\ [][NextPath]_vars

NoEmptySegment(path) == \A i \in DOMAIN path : path[i] # ""

NoDot(segment) == \A i \in 1..Len(segment) : SubSeq(segment, i, i) # "."

\* both functions were applied to the input, a path / a dotted string
PathWentRound == calc.from = "path" /\ calc.done = 2
DottedWentRound == calc.from = "dotted" /\ calc.done = 2

\* C29 as stated: from_dotted(to_dotted(p)) = p for every path p whose
\* segments are all non-empty, and to_dotted(from_dotted(s)) = s for every
\* dotted string s without empty components.
C29_RoundTrip ==
    /\ (PathWentRound /\ NoEmptySegment(calc.arg)) => calc.path = calc.arg
    /\ (DottedWentRound /\ NoEmptySegment(calc.path)) => calc.dotted = calc.arg

\* C29, amended: from_dotted(to_dotted(p)) = p for every path p that has at
\* least one segment and whose segments are non-empty and contain no dot;
\* to_dotted(from_dotted(s)) = s for every dotted string s without empty
\* components.
C29_RoundTripWithoutDots ==
    /\ (PathWentRound /\ Len(calc.arg) > 0 /\ NoEmptySegment(calc.arg)
        /\ \A i \in DOMAIN calc.arg : NoDot(calc.arg[i]))
          => calc.path = calc.arg
    /\ (DottedWentRound /\ NoEmptySegment(calc.path)) => calc.dotted = calc.arg

\* a path of two segments went through to_dotted and from_dotted
C29_TwoSegmentsBack ==
    /\ PathWentRound
    /\ calc.arg = <<"a", "b1">>
    /\ calc.dotted = "a.b1"

\* C28: after any sequence of pipeline operations no command belongs to a
\* Static namespace.
C28_NoCommandInStatic ==
    \A c \in DOMAIN commands : namespaces[commands[c].namespace_index].ty # "Static"

\* a pipeline with a Static namespace and a command has run to completion
C28_StaticBesideCommands ==
    /\ phase = "Completed"
    /\ \E n \in DOMAIN namespaces : namespaces[n].ty = "Static"
    /\ \E i \in DOMAIN hist : hist[i].invoked

\* C30: compile's name re-verification rejects a pipeline only when two
\* namespaces share a name, a namespace name is reserved, or two commands of
\* one namespace share a name; a namespace with several distinctly named
\* commands passes it.
C30_NameCheckRejectsOnlyClashes ==
    (phase = "Rejected" /\ diag = NameError(command_ns_pairs_iter(namespaces, commands)))
        => \/ \E i, j \in DOMAIN namespaces :
                 i # j /\ namespaces[i].name = namespaces[j].name
           \/ \E i \in DOMAIN namespaces : namespaces[i].name \in RESERVED_NAMESPACES
           \/ \E c, d \in DOMAIN commands :
                 /\ c # d
                 /\ commands[c].namespace_index = commands[d].namespace_index
                 /\ commands[c].name = commands[d].name

(***************************************************************************)
(* SpecAttrs: one attribute tree is checked by the command factory, read   *)
(* by the dependency extraction and substituted by the driver.  The        *)
(* command declares the attributes of DeclaredAttributes.                  *)
(***************************************************************************)
MaxPresent == 3

\* TypeDef
TScalar(st) == [t |-> "Scalar", st |-> st, inner |-> <<>>, fields |-> <<>>]
TTabular == [t |-> "Tabular", st |-> "", inner |-> <<>>, fields |-> <<>>]
TArrayOf(inner) == [t |-> "ArrayOf", st |-> "", inner |-> <<inner>>, fields |-> <<>>]
TObjectOf(fields) == [t |-> "ObjectOf", st |-> "", inner |-> <<>>, fields |-> fields]

\* AttributeSpec / FieldSpec
ASpec(name, ty, required, reference_kind) ==
    [name |-> name, ty |-> ty, required |-> required, reference_kind |-> reference_kind]

\* Descriptor::command_attributes of the command
DeclaredAttributes ==
    <<ASpec("note", TScalar("String"), FALSE, "Unsupported"),
      ASpec("text", TScalar("String"), TRUE, "StaticTeraTemplate"),
      ASpec("list", TArrayOf(TScalar("String")), FALSE, "StaticTeraTemplate"),
      ASpec("rows",
            TArrayOf(TObjectOf(<<ASpec("name", TScalar("String"), TRUE, "Unsupported"),
                                 ASpec("expr", TScalar("String"), FALSE, "RuntimeTeraTemplate")>>)),
            FALSE, "Unsupported"),
      ASpec("table", TTabular, FALSE, "StorePath")>>

COMMON_ATTRIBUTES == <<ASpec("when", TScalar("String"), FALSE, "RuntimeTeraTemplate")>>

\* Descriptor::available_attributes
available_attributes == COMMON_ATTRIBUTES \o DeclaredAttributes

\* the strings of the attribute trees: plain text, a reference, an unclosed
\* `{{`, a condition and a condition that ends in an operator
Plain == TemplateText(<<Lit("x")>>)
Ref == TemplateText(<<Var(<<"a", "b">>)>>)
Open == TemplateText(<<Lit("{{ a.b")>>)
Cond == TemplateText(<<Lit("a.b")>>)
CondBad == TemplateText(<<Lit("a.b ==")>>)

\* an object of the array `rows`
Row(name, expr) ==
    Obj([f \in {"name" : i \in DOMAIN name} \cup {"expr" : i \in DOMAIN expr} |->
            IF f = "name" THEN name[1] ELSE expr[1]])

\* the values offered for each attribute
AttrValues ==
    [note |-> {Plain, Ref, Open},
     text |-> {Plain, Ref, Open, Num(1)},
     list |-> {Arr(<<Plain, Ref>>), Arr(<<Open>>), Arr(<<Plain, Num(1)>>), Plain},
     rows |-> {Arr(<<Row(<<Plain>>, <<>>)>>), Arr(<<Row(<<Ref>>, <<Cond>>)>>),
               Arr(<<Row(<<Plain>>, <<CondBad>>)>>), Arr(<<Row(<<>>, <<Cond>>)>>),
               Arr(<<Row(<<Plain>>, <<>>), Row(<<Num(1)>>, <<>>)>>)},
     table |-> {Plain},
     when |-> {Cond, CondBad}]

\* Attributes: trees with at most MaxPresent attributes
AttrTrees ==
    UNION {{attrs \in [names -> UNION {AttrValues[n] : n \in names}] :
               \A n \in names : attrs[n] \in AttrValues[n]} :
           names \in {ns \in SUBSET DOMAIN AttrValues : Cardinality(ns) <= MaxPresent}}

\* the store the driver substitutes against
AttrStore == [a |-> Obj([b |-> Str("v")])]

\* scalar_type_of
scalar_type_of(value) ==
    CASE value.k = "null" -> "Null"
      [] value.k = "bool" -> "Bool"
      [] value.k = "num" -> "Number"
      [] value.k = "str" -> "String"
      [] value.k = "arr" -> "Array"
      [] OTHER -> "Object"

\* the text a template string was written as
SourceText(value) ==
    IF value.a = <<>> THEN value.s
    ELSE IF value.a[1].var = <<>> THEN value.a[1].lit
    ELSE "{{ " \o to_dotted(value.a[1].var) \o " }}"

\* {{ condition }} parses: the condition is a dotted identifier
ParsesCondition(condition) ==
    /\ condition # ""
    /\ \A i \in 1..Len(condition) : SubSeq(condition, i, i) \in AllowedChars \cup {"."}

\* parse_template_dependencies on the string of an attribute of the given
\* kind: [ok, deps]
parse_template_dependencies(value, reference_kind) ==
    IF reference_kind = "RuntimeTeraTemplate"
    THEN IF ParsesCondition(SourceText(value))
         THEN [ok |-> TRUE, deps |-> {from_dotted(SourceText(value))}]
         ELSE [ok |-> FALSE, deps |-> {}]
    ELSE IF ParsesTemplate(value.a)
         THEN [ok |-> TRUE, deps |-> TemplateVars(value)]
         ELSE [ok |-> FALSE, deps |-> {}]

\* validate_reference: "" or the error
validate_reference(value, reference_kind) ==
    IF value.k # "str" THEN ""
    ELSE IF reference_kind = "StaticTeraTemplate"
              /\ ~parse_template_dependencies(value, reference_kind).ok
    THEN "Invalid template syntax"
    ELSE IF reference_kind = "RuntimeTeraTemplate"
              /\ ~parse_template_dependencies(value, reference_kind).ok
    THEN "Invalid conditional syntax"
    ELSE ""

\* the first error of a sequence of outcomes, "" when there is none
FirstError(outcomes) ==
    IF \A i \in DOMAIN outcomes : outcomes[i] = "" THEN ""
    ELSE outcomes[CHOOSE i \in DOMAIN outcomes :
                      outcomes[i] # "" /\ \A j \in 1..(i - 1) : outcomes[j] = ""]

\* a value check that accepts every value
ValueUnchecked(value, ty) == ""

RECURSIVE validate_value(_, _)
RECURSIVE validate_object(_, _)
\* validate_value with validate_scalar: "" or the error
validate_value(value, ty) ==
    CASE ty.t = "Scalar" ->
            IF scalar_type_of(value) = ty.st THEN "" ELSE "expected another type"
      [] ty.t = "Tabular" -> "expected Tabular (DataFrame), but got a ScalarValue"
      [] ty.t = "ArrayOf" ->
            IF value.k # "arr" THEN "must be an array"
            ELSE FirstError([i \in DOMAIN value.a |-> validate_value(value.a[i], ty.inner[1])])
      [] OTHER ->
            IF value.k # "obj" THEN "must be an object"
            ELSE validate_object(value.m, ty.fields)

\* validate_object
validate_object(obj, fields) ==
    FirstError([i \in DOMAIN fields |->
        IF fields[i].name \in DOMAIN obj
        THEN FirstError(<<validate_value(obj[fields[i].name], fields[i].ty),
                          validate_reference(obj[fields[i].name], fields[i].reference_kind)>>)
        ELSE IF fields[i].required THEN "missing required field"
        ELSE ""])

\* validate_attributes
validate_attributes(attrs, specs) ==
    FirstError([i \in DOMAIN specs |->
        IF specs[i].name \in DOMAIN attrs
        THEN FirstError(<<validate_value(attrs[specs[i].name], specs[i].ty),
                          validate_reference(attrs[specs[i].name], specs[i].reference_kind)>>)
        ELSE IF specs[i].required THEN "missing required attribute"
        ELSE ""])

\* extract_from_scalar
extract_from_scalar(value, reference_kind) ==
    IF value.k # "str" THEN {}
    ELSE IF reference_kind \in {"StaticTeraTemplate", "RuntimeTeraTemplate"}
    THEN parse_template_dependencies(value, reference_kind).deps
    ELSE IF reference_kind = "StorePath" THEN {from_dotted(SourceText(value))}
    ELSE {}

RECURSIVE extract_from_value(_, _, _)
\* extract_from_value
extract_from_value(value, ty, reference_kind) ==
    CASE ty.t \in {"Scalar", "Tabular"} -> extract_from_scalar(value, reference_kind)
      [] ty.t = "ArrayOf" ->
            IF value.k # "arr" THEN {}
            ELSE UNION {extract_from_value(value.a[i], ty.inner[1], reference_kind) :
                           i \in DOMAIN value.a}
      [] OTHER ->
            IF value.k # "obj" THEN {}
            ELSE UNION {extract_from_value(value.m[ty.fields[i].name], ty.fields[i].ty,
                                           ty.fields[i].reference_kind) :
                           i \in {j \in DOMAIN ty.fields : ty.fields[j].name \in DOMAIN value.m}}

\* extract_dependencies_from_spec
extract_dependencies_from_spec(attrs, specs) ==
    UNION {extract_from_value(attrs[specs[i].name], specs[i].ty, specs[i].reference_kind) :
              i \in {j \in DOMAIN specs : specs[j].name \in DOMAIN attrs}}

\* the outcomes before the functions were applied
Pending == [error |-> "-", deps |-> {<<"-">>}, handed |-> [done |-> FALSE, ok |-> FALSE, attrs |-> <<>>]]

\* an attribute tree given to NamespaceHandle::add_command
AtInit ==
    /\ IdlePipeline /\ IdleRun /\ IdlePlan /\ IdleStore /\ IdleConc /\ schema = <<>>
    /\ ctx = AttrStore
    /\ \E attrs \in AttrTrees :
          calc = [attrs |-> attrs, made |-> Pending.error, built |-> FALSE,
                  deps |-> Pending.deps, handed |-> Pending.handed]

\* FromAttributes::factory: validate_attributes, then the instance
AtFactory ==
    /\ calc.made = Pending.error
    /\ calc' = [calc EXCEPT !.made = validate_attributes(calc.attrs, available_attributes),
                            !.built = validate_attributes(calc.attrs, available_attributes) = ""]
    /\ CalcFrame

\* FromAttributes::extract_dependencies
AtExtract ==
    /\ calc.deps = Pending.deps
    /\ calc' = [calc EXCEPT !.deps = extract_dependencies_from_spec(calc.attrs, DeclaredAttributes)]
    /\ CalcFrame

\* execute_commands: substitute_attributes, the attributes handed to the builder
AtSubstitute ==
    /\ ~calc.handed.done
    /\ calc' = [calc EXCEPT !.handed =
                   [done |-> TRUE, ok |-> substitute_attributes(ctx, calc.attrs).ok,
                    attrs |-> substitute_attributes(ctx, calc.attrs).attrs]]
    /\ CalcFrame

NextAttrs == AtFactory \/ AtExtract \/ AtSubstitute

SpecAttrs == AtInit /\ [][NextAttrs]_vars

\* C25: a string attribute whose ReferenceKind is Unsupported is a literal:
\* the driver hands it to the command as it was written, without evaluating
\* it as a template against the store, and it contributes no dependency.
C25_LiteralHandedUnchanged ==
    /\ (calc.handed.done /\ DOMAIN calc.attrs = {"note"})
          => /\ calc.handed.ok
             /\ calc.handed.attrs["note"] = Str(SourceText(calc.attrs["note"]))
    /\ (calc.deps # Pending.deps /\ DOMAIN calc.attrs = {"note"}) => calc.deps = {}

\* the strings of value v, v itself included
Strings(v) ==
    IF v.k = "str" THEN {v}
    ELSE IF v.k = "arr" THEN {v.a[i] : i \in {j \in DOMAIN v.a : v.a[j].k = "str"}}
    ELSE {}

\* the tree has a string of a template kind whose syntax is invalid: `when`
\* or `text` at top level, an element of `list`, or `expr` in an object of `rows`
HasInvalidTemplate(attrs) ==
    \/ "text" \in DOMAIN attrs /\ attrs["text"] = Open
    \/ "when" \in DOMAIN attrs /\ attrs["when"] = CondBad
    \/ "list" \in DOMAIN attrs /\ Open \in Strings(attrs["list"])
    \/ /\ "rows" \in DOMAIN attrs
       /\ \E i \in DOMAIN attrs["rows"].a :
             /\ "expr" \in DOMAIN attrs["rows"].a[i].m
             /\ attrs["rows"].a[i].m["expr"] = CondBad

\* C26: validate_attributes rejects every attribute tree that holds a
\* string of a template kind (Static or Runtime) with invalid template
\* syntax, at top level, in an object field or as an array element.
C26_InvalidTemplatesRejected ==
    (calc.made # Pending.error /\ HasInvalidTemplate(calc.attrs)) => calc.made # ""

\* the tree lacks the required attribute, or holds a declared attribute that
\* does not match its TypeDef, or gives a value to the Tabular attribute
Mismatch(attrs) ==
    \/ "text" \notin DOMAIN attrs
    \/ "text" \in DOMAIN attrs /\ attrs["text"].k # "str"
    \/ "note" \in DOMAIN attrs /\ attrs["note"].k # "str"
    \/ "when" \in DOMAIN attrs /\ attrs["when"].k # "str"
    \/ "table" \in DOMAIN attrs
    \/ /\ "list" \in DOMAIN attrs
       /\ \/ attrs["list"].k # "arr"
          \/ \E i \in DOMAIN attrs["list"].a : attrs["list"].a[i].k # "str"
    \/ /\ "rows" \in DOMAIN attrs
       /\ \/ attrs["rows"].k # "arr"
          \/ \E i \in DOMAIN attrs["rows"].a :
                LET row == attrs["rows"].a[i]
                IN \/ row.k # "obj"
                   \/ "name" \notin DOMAIN row.m
                   \/ "name" \in DOMAIN row.m /\ row.m["name"].k # "str"
                   \/ "expr" \in DOMAIN row.m /\ row.m["expr"].k # "str"

\* C27: the factory returns an error and builds no command when a required
\* attribute is absent, when a present declared attribute does not match its
\* TypeDef (scalar type, any array element, any declared object field), or
\* when a Tabular attribute is given a scalar value.
C27_FactoryRejectsMismatch ==
    (calc.made # Pending.error /\ Mismatch(calc.attrs)) => (calc.made # "" /\ ~calc.built)

\* the factory has refused a tree whose only fault is the number in the
\* second object of `rows`
C27_NestedFieldRefused ==
    /\ calc.made = "expected another type" /\ ~calc.built
    /\ DOMAIN calc.attrs = {"text", "rows"} /\ calc.attrs["text"] = Plain
    /\ Len(calc.attrs["rows"].a) = 2

(***************************************************************************)
(* SpecResults: Pipeline<Completed>::results over the context one command  *)
(* left.  The pipeline has the namespace `ns` (Once, or Iterative over     *)
(* `iterations` items) with the command `c`; ctx and tabular are the two   *)
(* stores of the context.                                                  *)
(***************************************************************************)
MaxIterations == 2

\* ResultSpec::Field; ty is the TypeDef
RField(name, ty, kind) ==
    [variant |-> "Field", name |-> name, attribute |-> "", name_field |-> "",
     ty |-> <<ty>>, kind |-> kind]

\* ResultSpec::DerivedFromSingleAttribute; ty is <<>> for None, <<t>> for Some(t)
RDerived(attribute, name_field, ty, kind) ==
    [variant |-> "DerivedFromSingleAttribute", name |-> "", attribute |-> attribute,
     name_field |-> name_field, ty |-> ty, kind |-> kind]

COMMON_RESULTS ==
    <<RField("duration_ms", TScalar("Number"), "Meta"),
      RField("status", TScalar("String"), "Meta")>>

\* Descriptor::command_results of the commands offered
ResultCatalogue ==
    {<<RField("data", TTabular, "Data"), RField("rows", TScalar("Number"), "Meta")>>,
     <<RField("result", TScalar("String"), "Data")>>,
     <<RField("index", TTabular, "Meta")>>,
     <<RDerived("aggregations", "name", <<>>, "Data")>>,
     <<RDerived("aggregations", "name", <<>>, "Meta")>>,
     <<RDerived("aggregations", "name", <<TTabular>>, "Data")>>}

\* Descriptor::available_results
available_results(command_results) == COMMON_RESULTS \o command_results

\* an object of the array `aggregations`
Agg(name, op) == Obj([name |-> Str(name), op |-> Str(op)])

\* the attribute trees the command was added with
AggAttributes ==
    {EmptyMap,
     [aggregations |-> Arr(<<>>)],
     [aggregations |-> Arr(<<Agg("a", "count")>>)],
     [aggregations |-> Arr(<<Agg("a", "b"), Agg("b", "count")>>)],
     [aggregations |-> Arr(<<Agg("a", "count"), Agg("a", "sum")>>)]}

\* the names one execution of the command wrote under its output prefix,
\* in the scalar and in the tabular store
Written ==
    {[scalar |-> {}, tabular |-> {}],
     [scalar |-> {"rows", "result"}, tabular |-> {"data", "index"}],
     [scalar |-> {"a"}, tabular |-> {}],
     [scalar |-> {"a", "b", "count"}, tabular |-> {}],
     [scalar |-> {"a", "count"}, tabular |-> {"b"}],
     [scalar |-> {}, tabular |-> {"a", "b"}]}

\* the output prefixes of the executions: the base path, or one per item
Sources(ty, iterations) ==
    IF ty = "Iterative" THEN {WithIndex(<<"ns", "c">>, i) : i \in 0..(iterations - 1)}
    ELSE {<<"ns", "c">>}

RECURSIVE InsertAll(_, _, _)
\* the scalar store after value was inserted at every path of `paths`
InsertAll(c, paths, value) ==
    IF paths = {} THEN c
    ELSE LET p == CHOOSE q \in paths : TRUE
         IN InsertAll(ScalarInsert(c, p, value).ctx, paths \ {p}, value)

\* the scalar store the run left: the wrapper's status and duration_ms and
\* the command's own values, under every output prefix
ScalarLeft(sources, written) ==
    InsertAll(InsertAll(NewContext,
                        {WithSegment(s, name) : s \in sources, name \in written.scalar \cup {"duration_ms"}},
                        Num(1)),
              {WithSegment(s, "status") : s \in sources}, Str("success"))

\* the tabular store the run left
TabularLeft(sources, written) ==
    [key \in {to_dotted(WithSegment(s, name)) : s \in sources, name \in written.tabular} |-> "df"]

\* the settings results() is called with
ExcludedCommands == {{}, {<<"ns">>}, {<<"ns", "c">>}, {<<"other">>}, {<<"ns", "c", "0">>}}
Formats == {"json", "csv"}

NoStore == [done |-> FALSE, results |-> <<>>, files |-> {}]

\* a Completed pipeline and its context
RsInit ==
    /\ IdlePipeline /\ IdleRun /\ IdlePlan /\ IdleStore /\ schema = <<>>
    /\ tasks = <<>> /\ lock = <<>>
    /\ \E ty \in {"Once", "Iterative"}, iterations \in 0..MaxIterations,
          command_results \in ResultCatalogue, attributes \in AggAttributes,
          written \in Written :
          /\ ty = "Once" => iterations = 1
          /\ ctx = ScalarLeft(Sources(ty, iterations), written)
          /\ tabular = TabularLeft(Sources(ty, iterations), written)
          /\ calc = [ty |-> ty, iterations |-> iterations,
                     expected_results |-> available_results(command_results),
                     attributes |-> attributes, excluded |-> {}, format |-> "",
                     store |-> NoStore]

\* the command is excluded by the settings
IsExcluded(excluded_commands, base_path) ==
    \E ex \in excluded_commands : StartsWith(base_path, ex) \/ ex = base_path

RECURSIVE Probe(_, _, _)
\* the probe of the indices of an Iterative namespace: up to the first
\* index without a `status`
Probe(c, base_path, index) ==
    IF ScalarGet(c, WithSegment(WithIndex(base_path, index), "status")).val.some
    THEN <<WithIndex(base_path, index)>> \o Probe(c, base_path, index + 1)
    ELSE <<>>

\* source_paths
source_paths(c, ty, base_path) ==
    IF ty = "Iterative" THEN Probe(c, base_path, 0) ELSE <<base_path>>

\* a name taken from the field `op` of the element
ElementOp(elem, name_field) ==
    IF elem.k = "obj" /\ "op" \in DOMAIN elem.m /\ elem.m["op"].k = "str"
    THEN <<elem.m["op"].s>> ELSE <<>>

\* elem.as_object().and_then(get(name_field)).and_then(as_str)
ElementName(elem, name_field) ==
    IF elem.k = "obj" /\ name_field \in DOMAIN elem.m /\ elem.m[name_field].k = "str"
    THEN <<elem.m[name_field].s>> ELSE <<>>

RECURSIVE ElementNames(_, _)
\* the filter_map over the elements of the array
ElementNames(arr, name_field) ==
    IF Len(arr) = 0 THEN <<>>
    ELSE ElementName(arr[1], name_field) \o ElementNames(Tail(arr), name_field)

\* the entries (field_name, kind, type_def) of one ResultSpec
entries(attributes, result_spec) ==
    LET entry(name) == [name |-> name, kind |-> result_spec.kind, ty |-> result_spec.ty]
    IN IF result_spec.variant = "Field" THEN <<entry(result_spec.name)>>
       ELSE IF result_spec.attribute \notin DOMAIN attributes
       THEN <<entry(result_spec.name_field)>>
       ELSE LET attr_value == attributes[result_spec.attribute]
            IN IF attr_value.k = "arr"
               THEN LET names == ElementNames(attr_value.a, result_spec.name_field)
                    IN [i \in DOMAIN names |-> entry(names[i])]
               ELSE IF attr_value.k = "str" THEN <<entry(attr_value.s)>>
               ELSE <<entry(result_spec.name_field)>>

\* a type test that finds no result tabular
NeverTabular(type_def) == FALSE

\* type_def.is_some_and(|td| matches!(td, TypeDef::Tabular))
is_tabular(type_def) == type_def # <<>> /\ type_def[1].t = "Tabular"

\* the ScalarType of a data entry
DataType(type_def, value) ==
    IF type_def # <<>> /\ type_def[1].t = "Scalar" THEN type_def[1].st
    ELSE scalar_type_of(value)

RECURSIVE Collect(_, _, _, _, _, _)
\* the loop over the entries of one source: rec is (meta, data, files)
Collect(c, t, format, source, es, rec) ==
    IF Len(es) = 0 THEN rec
    ELSE LET e == es[1]
             field_path == WithSegment(source, e.name)
             value == ScalarGet(c, field_path).val
             file_name == to_dotted(field_path) \o "." \o format
             next ==
                 IF is_tabular(e.ty)
                 THEN IF to_dotted(field_path) \in DOMAIN t
                      THEN [rec EXCEPT
                               !.data = Put(@, field_path,
                                            [variant |-> "Tabular", path |-> file_name,
                                             format |-> format, ty |-> "", value |-> Null]),
                               !.files = @ \cup {file_name}]
                      ELSE rec
                 ELSE IF value.some
                 THEN IF e.kind = "Meta"
                      THEN [rec EXCEPT !.meta = Put(@, field_path, value.v)]
                      ELSE [rec EXCEPT
                               !.data = Put(@, field_path,
                                            [variant |-> "Scalar", path |-> "", format |-> "",
                                             ty |-> DataType(e.ty, value.v), value |-> value.v])]
                 ELSE rec
         IN Collect(c, t, format, source, Tail(es), next)

RECURSIVE AllEntries(_, _)
\* the entries of the expected results, in their order
AllEntries(attributes, expected_results) ==
    IF Len(expected_results) = 0 THEN <<>>
    ELSE entries(attributes, expected_results[1])
            \o AllEntries(attributes, Tail(expected_results))

\* CommandResults { source, meta, data } of one source, and the files written
CommandResults(c, t, format, source, attributes, expected_results) ==
    [source |-> source] @@
    Collect(c, t, format, source, AllEntries(attributes, expected_results),
            [meta |-> EmptyMap, data |-> EmptyMap, files |-> {}])

\* Pipeline<Completed>::results for the command `c` of the namespace `ns`
results(c, t, pipeline, excluded_commands, format) ==
    IF IsExcluded(excluded_commands, <<"ns", "c">>)
    THEN [done |-> TRUE, results |-> <<>>, files |-> {}]
    ELSE LET paths == source_paths(c, pipeline.ty, <<"ns", "c">>)
             recs == [i \in DOMAIN paths |->
                         CommandResults(c, t, format, paths[i], pipeline.attributes,
                                        pipeline.expected_results)]
         IN [done |-> TRUE,
             results |-> [i \in DOMAIN recs |->
                             [source |-> recs[i].source, meta |-> recs[i].meta,
                              data |-> recs[i].data]],
             files |-> UNION {recs[i].files : i \in DOMAIN recs}]

\* pipeline.results(settings)
RsResults ==
    /\ ~calc.store.done
    /\ \E excluded_commands \in ExcludedCommands, format \in Formats :
          calc' = [calc EXCEPT !.excluded = excluded_commands, !.format = format,
                               !.store = results(ctx, tabular, calc, excluded_commands, format)]
    /\ CalcFrame

\* a second call of results() on the same pipeline
RsAgain ==
    /\ calc.store.done
    /\ \E excluded_commands \in ExcludedCommands, format \in Formats :
          /\ <<excluded_commands, format>> # <<calc.excluded, calc.format>>
          /\ calc' = [calc EXCEPT !.excluded = excluded_commands, !.format = format,
                                  !.store = results(ctx, tabular, calc, excluded_commands, format)]
    /\ CalcFrame

NextResults == RsResults \/ RsAgain

SpecResults == RsInit /\ [][NextResults]_vars

\* results() was called and the settings did not exclude the command
Projected == calc.store.done /\ ~IsExcluded(calc.excluded, <<"ns", "c">>)

\* the names of the declared result r: the name of a Field; for a derived
\* result the name_field value of every element of its array attribute
DeclaredNames(r) ==
    IF r.variant = "Field" THEN {r.name}
    ELSE IF r.attribute \in DOMAIN calc.attributes
    THEN {calc.attributes[r.attribute].a[i].m[r.name_field].s :
             i \in DOMAIN calc.attributes[r.attribute].a}
    ELSE {}

\* the value of the result `name` of type ty is in the context under source:
\* in the tabular store for a Tabular result, in the scalar store otherwise
Present(source, name, ty) ==
    IF ty = <<TTabular>> THEN to_dotted(source \o <<name>>) \in DOMAIN tabular
    ELSE ScalarGet(ctx, source \o <<name>>).val.some

\* the maps ("meta", "data") of the record of `source` that hold an entry
\* at the path [source, name]
EntryClasses(source, name) ==
    {class \in {"meta", "data"} :
        \E i \in DOMAIN calc.store.results :
           /\ calc.store.results[i].source = source
           /\ (source \o <<name>>) \in DOMAIN calc.store.results[i][class]}

ClassOfKind(kind) == IF kind = "Meta" THEN "meta" ELSE "data"

DerivedSpecs ==
    {r \in {calc.expected_results[j] : j \in DOMAIN calc.expected_results} :
        /\ r.variant = "DerivedFromSingleAttribute"
        /\ r.attribute \in DOMAIN calc.attributes
        /\ calc.attributes[r.attribute].k = "arr"}

\* the paths of the record of `source` that no Field result names
DerivedKeys(source) ==
    UNION {(DOMAIN calc.store.results[i].meta \cup DOMAIN calc.store.results[i].data)
              \ {source \o <<calc.expected_results[j].name>> :
                    j \in {k \in DOMAIN calc.expected_results :
                              calc.expected_results[k].variant = "Field"}} :
           i \in {k \in DOMAIN calc.store.results : calc.store.results[k].source = source}}

\* C24: for a result derived from an array-of-objects attribute, the
\* projection holds exactly one entry for every array element whose value
\* exists in the context, at the element's name_field value, and no entry
\* named after another field of an element.
C24_DerivedNamedByNameField ==
    Projected =>
       \A source \in Sources(calc.ty, calc.iterations) : \A r \in DerivedSpecs :
          /\ DerivedKeys(source) =
                {source \o <<name>> :
                    name \in {n \in DeclaredNames(r) : Present(source, n, r.ty)}}
          /\ \A name \in DeclaredNames(r) :
                Present(source, name, r.ty) => Cardinality(EntryClasses(source, name)) = 1

\* elements a and b were projected; the value the command left at `count`,
\* the op of an element, was not
C24_OpNotProjected ==
    /\ Projected /\ calc.ty = "Once"
    /\ calc.attributes = [aggregations |-> Arr(<<Agg("a", "b"), Agg("b", "count")>>)]
    /\ \E r \in DerivedSpecs : r.ty = <<>> /\ r.kind = "Data"
    /\ ScalarGet(ctx, <<"ns", "c", "a">>).val.some
    /\ ScalarGet(ctx, <<"ns", "c", "b">>).val.some
    /\ ScalarGet(ctx, <<"ns", "c", "count">>).val.some
    /\ DerivedKeys(<<"ns", "c">>) = {<<"ns", "c", "a">>, <<"ns", "c", "b">>}

(***************************************************************************)
(* SpecIter: resolve_iterator_values over the value at src.v, for the      *)
(* ScalarArray and ScalarObjectKeys sources of an Iterative namespace.     *)
(***************************************************************************)
\* the values at src.v: arrays of 0..3 items, objects over the keys a, b, c,
\* and a string
IterValues ==
    {Arr(Take(SrcItems, n)) : n \in 0..Len(SrcItems)}
       \cup {Obj([key \in ks |-> Num(1)]) : ks \in SUBSET {"a", "b", "c"}}
       \cup {Str("a,b")}

\* the sources: arrays with and without a range, object keys with and
\* without a list
IterSources ==
    {ScalarArrayRange(<<>>)}
       \cup {ScalarArrayRange(<<start, end>>) : start \in 0..MaxUsize, end \in 0..MaxUsize}
       \cup {ScalarObjectAllKeys(exclude) : exclude \in BOOLEAN}
       \cup {ScalarObjectKeys(list, exclude) : list \in SUBSET {"a", "b", "d"}, exclude \in BOOLEAN}

NotResolved == [done |-> FALSE, ok |-> FALSE, items |-> <<>>]

\* an Iterative namespace over src.v and the store of its run
ItInit ==
    /\ IdlePipeline /\ IdleRun /\ IdlePlan /\ IdleStore /\ IdleConc /\ schema = <<>>
    /\ \E source \in IterSources :
          calc = [ns |-> IterativeNs("p", <<"src", "v">>, source, <<>>, <<>>),
                  got |-> NotResolved]
    /\ \/ ctx = NewContext
       \/ \E value \in IterValues : ctx = ScalarInsert(NewContext, <<"src", "v">>, value).ctx

\* resolve_iterator_values(context, namespace.ty())
ItResolve ==
    /\ ~calc.got.done
    /\ LET r == resolve_iter_values(ctx, calc.ns)
       IN IF r.ok
          THEN \E items \in r.items :
                  calc' = [calc EXCEPT !.got = [done |-> TRUE, ok |-> TRUE, items |-> items]]
          ELSE calc' = [calc EXCEPT !.got = [done |-> TRUE, ok |-> FALSE, items |-> <<>>]]
    /\ CalcFrame

NextIter == ItResolve

SpecIter == ItInit /\ [][NextIter]_vars

\* the value at src.v
IterValue == ScalarGet(ctx, <<"src", "v">>).val

\* C31: with range (start, end), a ScalarArray source yields exactly the
\* elements at the indices i with start <= i < min(end, length), in array
\* order, and nothing when end <= start or start >= length; it never fails
\* on an array.
C31_RangeSlice ==
    (/\ calc.got.done /\ calc.ns.source.kind = "ScalarArray" /\ calc.ns.source.range # <<>>
     /\ IterValue.some /\ IterValue.v.k = "arr")
    => LET arr == IterValue.v.a
           start == calc.ns.source.range[1]
           end == calc.ns.source.range[2]
           stop == IF end < Len(arr) THEN end ELSE Len(arr)
       IN /\ calc.got.ok
          /\ calc.got.items = [i \in 1..(IF stop > start THEN stop - start ELSE 0) |-> arr[start + i]]
          /\ (end <= start \/ start >= Len(arr)) => calc.got.items = <<>>

\* the range (1, 7) over three items yielded the second and the third
C31_EndBeyondLength ==
    /\ calc.got.done /\ calc.got.ok
    /\ calc.ns.source = ScalarArrayRange(<<1, 7>>)
    /\ IterValue.v = Arr(SrcItems)
    /\ calc.got.items = <<SrcItems[2], SrcItems[3]>>

\* C32: a ScalarObjectKeys source over an object yields all of its keys
\* when `keys` is None, exactly its keys that are in the list when
\* `exclude` is false, and exactly its keys that are not in the list when
\* `exclude` is true; each key once.
C32_ObjectKeys ==
    (/\ calc.got.done /\ calc.ns.source.kind = "ScalarObjectKeys"
     /\ IterValue.some /\ IterValue.v.k = "obj")
    => LET object_keys == DOMAIN IterValue.v.m
           list == calc.ns.source.keys.list
           yielded == {calc.got.items[i] : i \in DOMAIN calc.got.items}
           wanted == IF ~calc.ns.source.keys.some THEN object_keys
                     ELSE IF calc.ns.source.exclude THEN object_keys \ list
                     ELSE object_keys \cap list
       IN /\ calc.got.ok
          /\ yielded = {Str(key) : key \in wanted}
          /\ Len(calc.got.items) = Cardinality(wanted)

\* the keys a and d excluded from the object {a, b, c}: b and c were yielded
C32_ExcludedKeys ==
    /\ calc.got.done /\ calc.got.ok
    /\ calc.ns.source = ScalarObjectKeys({"a", "d"}, TRUE)
    /\ DOMAIN IterValue.v.m = {"a", "b", "c"}
    /\ calc.got.items = <<Str("c"), Str("b")>>

\* C33: for every non-empty StorePath p and value v, if insert(p, v)
\* returns Ok then an immediately following get(p) returns v, also when p
\* has a single segment.
C33_GetAfterInsert ==
    (last.op = "insert" /\ last.ok /\ Len(last.key) > 0)
        => ScalarGet(ctx, last.key) = [ok |-> TRUE, val |-> Some(last.value)]

\* the same for the paths of two segments or more
C33_GetAfterInsertBelowNamespace ==
    (last.op = "insert" /\ last.ok /\ Len(last.key) > 1)
        => ScalarGet(ctx, last.key) = [ok |-> TRUE, val |-> Some(last.value)]

(***************************************************************************)
(* SpecShadow: the lifecycle of Spec, driven with Iterative namespaces     *)
(* whose iteration variables carry the name of another namespace.          *)
(***************************************************************************)
ShadowBuilders ==
    {StaticNs("src", SrcValues), OnceNs("a"),
     IterativeNs("p", <<"src", "items">>, ScalarArray, <<"a">>, <<>>),
     IterativeNs("p", <<"src", "items">>, ScalarArray, <<"item">>, <<"src">>)}

ShadowCommands ==
    {[ns |-> ns, name |-> "c", attrs |-> Attrs(<<Lit("x")>>, <<>>)] : ns \in {"a", "p"}}

NextShadow ==
    \/ \E builder \in ShadowBuilders : AddNamespace(builder)
    \/ \E entry \in ShadowCommands : AddCommand(entry)
    \/ Compile
    \/ Edit
    \/ Restart
    \/ ExecuteStart
    \/ NextGroup
    \/ Iteration
    \/ RunCommand
    \/ EndCommands
    \/ Finish
    \/ Cancel

SpecShadow == Init /\ [][NextShadow]_vars

\* the values of the Static namespaces and the status of every command
\* that returned Ok are in the store
OutputsKept ==
    /\ \A n \in DOMAIN namespaces : \A key \in DOMAIN namespaces[n].values :
          ScalarGet(ctx, <<namespaces[n].name, key>>).val = Some(namespaces[n].values[key])
    /\ \A i \in DOMAIN hist :
          hist[i].ok => ScalarGet(ctx, WithSegment(hist[i].prefix, "status")).val.some

\* C34: binding and removing the iteration variables of an Iterative
\* namespace never overwrites or deletes values stored under a namespace of
\* the pipeline, whatever the names of iter_var and index_var: when the run
\* has completed, the values of the Static namespaces and the results of
\* the commands that ran are still in the store.
C34_IterationVarsKeepNamespaces ==
    phase = "Completed" => OutputsKept

(***************************************************************************)
(* SpecHooks: a Draft pipeline with registered EventHooks; the hooks       *)
(* answer each after_added_namespace / after_added_command call.           *)
(***************************************************************************)
\* the answers of the registered hooks to one event: Ok (TRUE) or Err
HookOutcomes == {<<TRUE>>, <<FALSE>>, <<TRUE, FALSE>>, <<TRUE, TRUE>>}

NextHooks ==
    \/ \E builder \in NamedBuilders, outcomes \in HookOutcomes :
          AddNamespaceHooked(builder, outcomes)
    \/ \E entry \in NamedCommands, outcomes \in HookOutcomes :
          AddCommandHooked(entry, outcomes)

SpecHooks == Init /\ [][NextHooks]_vars

\* C35: when add_namespace or add_command returns an error (duplicate name,
\* reserved name, or a failing registered hook), the namespaces and the
\* commands of the pipeline are what they were before the call.
C35_FailedAddChangesNothing ==
    [][diag' # "" => (namespaces' = namespaces /\ commands' = commands)]_vars

\* the same for the errors found before the hooks are called
C35_RefusedAddChangesNothing ==
    [][(diag' # "" /\ diag' # "Hook service errors")
          => (namespaces' = namespaces /\ commands' = commands)]_vars

\* the commands that provide the extension ext
Providers(ext) == {d \in DOMAIN commands : ext \in commands[d].provides_extensions}

\* command c was yielded in group g after command d: later in g when both
\* are of one namespace, or d in an earlier group
RunsAfter(g, c, d) ==
    IF CmdNs(c) = CmdNs(d)
    THEN /\ Scheduled(plan.groups[g].commands, d)
         /\ Pos(plan.groups[g].commands, d) < Pos(plan.groups[g].commands, c)
    ELSE \E h \in 1..(g - 1) :
            /\ plan.groups[h].namespace_index = CmdNs(d)
            /\ Scheduled(plan.groups[h].commands, d)

\* C36: in a compiled pipeline every extension required by some command has
\* exactly one providing command, and the plan runs that provider before
\* every command that requires the extension: in an earlier namespace
\* group, or earlier within the same namespace.
C36_ProviderRunsFirst ==
    (ExtensionError(commands) = "" /\ plan.state \in {"planned", "done"} /\ plan.error = "")
    => \A c \in DOMAIN commands : \A ext \in commands[c].requires_extensions :
          /\ Cardinality(Providers(ext)) = 1
          /\ \A d \in Providers(ext) : \A g \in DOMAIN plan.groups :
                Scheduled(plan.groups[g].commands, c) => RunsAfter(g, c, d)

\* b was added before p, p waits for a and holds the provider of E that a
\* command of b requires: the plan has run a, then p, then b
C36_RequirerWaited ==
    /\ plan.state = "done" /\ plan.error = "" /\ ExtensionError(commands) = ""
    /\ \E c, d \in DOMAIN commands :
          /\ "E" \in commands[c].requires_extensions
          /\ "E" \in commands[d].provides_extensions
          /\ namespaces[CmdNs(c)].name = "b" /\ namespaces[CmdNs(d)].name = "p"
          /\ CmdNs(c) < CmdNs(d)
          /\ namespaces[CmdNs(d)].store_path[1] = "a"
          /\ \E g \in DOMAIN plan.groups :
                Scheduled(plan.groups[g].commands, c) /\ RunsAfter(g, c, d)

\* the event the step has just appended to the history
Recorded == hist'[Len(hist')]

\* the step ran a command after the cancellation token had been cancelled
RanCancelled == run.canceled /\ Len(hist') = Len(hist) + 1

\* C37: once the cancellation token is cancelled no inner command is invoked
\* any more: every remaining command without a `when` guard reaches the
\* wrapper, returns Ok and is recorded with status cancelled and a
\* duration_ms, and the run does not fail.
C37_CancelledRunCompletes ==
    [][RanCancelled =>
        /\ ~Recorded.invoked
        /\ ("when" \notin DOMAIN commands[Recorded.command].attributes)
              => /\ Recorded.stage = "wrapper" /\ Recorded.ok
                 /\ Recorded.status = Some(Str(EXECUTION_STATUS_CANCELLED))
                 /\ Recorded.duration_ms.some
                 /\ phase' # "Failed"]_vars

\* C37, the part that holds: once the cancellation token is cancelled no
\* inner command is invoked any more, and every command that reaches the
\* wrapper with no `when` guard is recorded with status cancelled and a
\* duration_ms.
C37_CancelledNeverInvoked ==
    [][RanCancelled =>
        /\ ~Recorded.invoked
        /\ ("when" \notin DOMAIN commands[Recorded.command].attributes
            /\ Recorded.stage = "wrapper")
              => /\ Recorded.ok
                 /\ Recorded.status = Some(Str(EXECUTION_STATUS_CANCELLED))
                 /\ Recorded.duration_ms.some]_vars

\* a command recorded as cancelled left no content, and a later command of
\* the same run whose attribute reads that content failed in substitution:
\* the run ended in an error
DependentOfCancelledFailed ==
    /\ phase = "Failed" /\ run.canceled
    /\ \E i, j \in DOMAIN hist :
          /\ i < j /\ j = Len(hist)
          /\ hist[i].status = Some(Str(EXECUTION_STATUS_CANCELLED))
          /\ hist[j].stage = "substitute"
          /\ hist[i].prefix = <<"a", "c">>
          /\ hist[j].prefix = <<"p", "d", "0">>

\* the first k elements of a sequence, as a set
Emitted(q, k) == {q[i] : i \in 1..k}

\* namespace n holds a command that provides an extension
HoldsProvider(n) ==
    \E c \in DOMAIN commands : CmdNs(c) = n /\ commands[c].provides_extensions # {}

\* the namespaces not yet emitted whose prerequisites are all among `done`
ReadyNamespaces(done) ==
    {n \in (DOMAIN namespaces) \ done :
        \A e \in NamespaceEdges : e[1] = n => e[2] \in done}

\* the commands of namespace n not yet emitted whose prerequisites within
\* the namespace are all among `done`
ReadyCommands(n, done) ==
    {c \in (DOMAIN commands) \ done :
        /\ CmdNs(c) = n
        /\ \A e \in GroupEdges : e[1] = c => e[2] \in done}

\* C38: at each step the scheduler emits, among the namespaces whose
\* prerequisites have all been emitted, one that holds an extension-providing
\* command if there is one, and otherwise and among equals the one added
\* first; within a namespace group it emits, among the commands whose
\* prerequisites have been emitted, the one added first.
C38_OrderByPriorityThenIndex ==
    /\ plan.state \in {"planned", "done"} =>
          \A k \in DOMAIN plan.namespace_order :
             LET n == plan.namespace_order[k]
                 ready == ReadyNamespaces(Emitted(plan.namespace_order, k - 1))
             IN /\ n \in ready
                /\ \A m \in ready :
                      \/ HoldsProvider(n) /\ ~HoldsProvider(m)
                      \/ (HoldsProvider(n) <=> HoldsProvider(m)) /\ n <= m
    /\ \A g \in DOMAIN plan.groups :
          \A k \in DOMAIN plan.groups[g].commands :
             LET c == plan.groups[g].commands[k]
                 ready == ReadyCommands(plan.groups[g].namespace_index,
                                        Emitted(plan.groups[g].commands, k - 1))
             IN c \in ready /\ \A d \in ready : c <= d

\* a finished plan in which a namespace holding a provider was emitted before
\* an earlier-added namespace that was ready as well, and in which a group of
\* two commands both ready from the start came out in the order of addition
C38_ProviderNamespaceWentFirst ==
    /\ plan.state = "done" /\ plan.error = ""
    /\ \E k, l \in DOMAIN plan.namespace_order :
          /\ k < l
          /\ plan.namespace_order[l] < plan.namespace_order[k]
          /\ HoldsProvider(plan.namespace_order[k])
          /\ plan.namespace_order[l] \in
                ReadyNamespaces(Emitted(plan.namespace_order, k - 1))
    /\ \E g \in DOMAIN plan.groups :
          /\ Len(plan.groups[g].commands) = 2
          /\ ReadyCommands(plan.groups[g].namespace_index, {})
                = {plan.groups[g].commands[1], plan.groups[g].commands[2]}

====
